---------------------------- MODULE Spec2Model ----------------------------
(***************************************************************************)
(* Handwriting evaluation service: the OCR orchestrator                    *)
(* (services/ocr/orchestrator.ts) and the detached evaluation pipeline     *)
(* (services/evaluation-service.ts) that drives it.                        *)
(*                                                                         *)
(* Confidences are held as integer percentages (0.7 is 70).  A message     *)
(* built by string interpolation is held as the sequence of its parts.     *)
(***************************************************************************)
EXTENDS Integers, Sequences, FiniteSets, TLC

(***************************************************************************)
(* Bounds of the model.                                                    *)
(***************************************************************************)
\* Confidence levels above the threshold that a provider may report.
MaxAboveLevels == 0
\* Abandoned (timed-out) provider calls whose late settlement is followed;
\* a further abandoned call is one that never settles.
MaxLateCalls == 1
\* The last instant of the rate limiter's clock.
MaxClock == 4
\* checkLimit calls followed in one run of the rate limiter.
MaxCalls == 4
\* analyzeHandwriting calls followed in one run.
MaxAnalyses == 3

\* maxSize of the submission route (10 * 1024 * 1024 bytes), in megabytes.
MaxUploadSize == 10

(***************************************************************************)
(* Program constants.                                                      *)
(***************************************************************************)
\* config.minimumConfidence (0.7), as a percentage.
MinimumConfidence == 70
\* The enhancement branch: qualityScore < 70.
EnhanceBelow == 70

\* The keys of OCROrchestrator.providers, in insertion order.
RegisteredProviders == <<"google-vision", "aws-textract", "azure-ocr", "tesseract">>

\* The literal returned by getProviderOrder when no known provider is preferred.
DefaultOrder == <<"google-vision", "azure-ocr", "aws-textract", "tesseract">>

Range(s) == {s[i] : i \in 1..Len(s)}

Registered == Range(RegisteredProviders)

\* What a caller may pass as preferredProvider: undefined, the empty string,
\* a registered name, or a name that is not registered.
NoPreference == "undefined"
PreferredChoices == Registered \cup {NoPreference, "", "unknown-ocr"}

\* Confidences a provider may report: two below the threshold, the threshold
\* itself, and MaxAboveLevels levels above it.
Confidences == {40, 60} \cup {MinimumConfidence + 10 * k : k \in 0..MaxAboveLevels}

\* The prefix each adapter puts in the OCRError it throws.
AdapterLabel(p) ==
  CASE p = "google-vision" -> "Google Vision OCR"
    [] p = "aws-textract"  -> "AWS Textract OCR"
    [] p = "azure-ocr"     -> "Azure OCR"
    [] p = "tesseract"     -> "Tesseract OCR"

\* The code each adapter puts in the OCRError it throws.
AdapterCode(p) ==
  CASE p = "google-vision" -> "GOOGLE_VISION_ERROR"
    [] p = "aws-textract"  -> "AWS_TEXTRACT_ERROR"
    [] p = "azure-ocr"     -> "AZURE_OCR_ERROR"
    [] p = "tesseract"     -> "TESSERACT_ERROR"

\* Causes an adapter's underlying client may fail with.
AdapterCauses == {"Unknown error", "service unavailable"}

\* new OCRError(message, provider, code)
OCRError(message, provider, code) ==
  [message |-> message, provider |-> provider, code |-> code]

\* The error an adapter's catch block throws.
AdapterError(p, cause) ==
  OCRError(<<AdapterLabel(p), " failed: ", cause>>, p, AdapterCode(p))

\* The rejection of the timeout arm of the race recorded as it is: an Error
\* that names no provider.
UnwrappedTimeout(p) ==
  OCRError(<<"", "", "Timeout">>, "undefined", "undefined")

\* The rejection of the timeout arm of the race, as wrapped by the catch block
\* of processImage (it is not an OCRError, so it is wrapped without a code).
WrappedTimeout(p) ==
  OCRError(<<p, " failed: ", "Timeout">>, p, "undefined")

RECURSIVE SelectSeq2(_, _)
\* Array.prototype.filter(p => p !== x)
SelectSeq2(s, x) ==
  IF s = <<>> THEN <<>>
  ELSE IF Head(s) # x THEN <<Head(s)>> \o SelectSeq2(Tail(s), x)
       ELSE SelectSeq2(Tail(s), x)

\* getProviderOrder without the filter: the preferred provider twice.
getProviderOrderUnfiltered(preferred) ==
  IF preferred # NoPreference /\ preferred # "" /\ preferred \in Registered
  THEN <<preferred>> \o RegisteredProviders
  ELSE DefaultOrder

\* OCROrchestrator.getProviderOrder
getProviderOrder(preferred) ==
  IF preferred # NoPreference /\ preferred # "" /\ preferred \in Registered
  THEN <<preferred>> \o SelectSeq2(RegisteredProviders, preferred)
  ELSE DefaultOrder

RECURSIVE ReduceLatest(_, _)
\* The reduce with >= for >: among equal confidences the latest wins.
ReduceLatest(best, rest) ==
  IF rest = <<>> THEN best
  ELSE ReduceLatest(IF Head(rest).confidence >= best.confidence THEN Head(rest) ELSE best,
                    Tail(rest))

RECURSIVE Reduce(_, _)
\* results.reduce((best, current) => current.confidence > best.confidence ? current : best)
\* with the accumulator best and the remaining elements rest.
Reduce(best, rest) ==
  IF rest = <<>> THEN best
  ELSE Reduce(IF Head(rest).confidence > best.confidence THEN Head(rest) ELSE best,
              Tail(rest))

bestResult(rs) == Reduce(Head(rs), Tail(rs))

RECURSIVE JoinMessages(_)
\* errors.map(e => e.message).join(', ')
JoinMessages(es) ==
  IF es = <<>> THEN <<>>
  ELSE IF Len(es) = 1 THEN Head(es).message
       ELSE Head(es).message \o <<", ">> \o JoinMessages(Tail(es))

\* "Throw the first error": the first provider's error alone.
FirstError(es) == Head(es)

\* The error thrown after the loop when no provider produced a result.
AggregateError(es) ==
  OCRError(<<"All OCR providers failed. Errors: ">> \o JoinMessages(es),
           "orchestrator", "ALL_PROVIDERS_FAILED")

\* The threshold test with > for >=.
MeetsThresholdStrictly(confidence) == confidence > MinimumConfidence

\* The threshold test of processImage.
MeetsThreshold(confidence) == confidence >= MinimumConfidence


(***************************************************************************)
(* Numbers as JavaScript and the store hold them.                          *)
(***************************************************************************)
Num(v) == [kind |-> "number", v |-> v]
NaN == [kind |-> "NaN", v |-> 0]
Undefined == [kind |-> "undefined", v |-> 0]
Null == [kind |-> "null", v |-> 0]

IsNum(x) == x.kind = "number"

\* Math.round of a / b for b > 0: the nearest integer, halves upwards.
RoundDiv(a, b) == (2 * a + b) \div (2 * b)

\* prisma update of a nullable column: an undefined value leaves the column.
Stored(old, new) == IF new.kind = "undefined" THEN old ELSE new

(***************************************************************************)
(* State.                                                                  *)
(***************************************************************************)
VARIABLES
  evaluation,        \* the persisted Evaluation row of the job
  caller,            \* the caller of startEvaluation
  request,           \* the EvaluationRequest options read by the pipeline
  pc,                \* where the detached processEvaluationAsync stands
  rejection,         \* the message processEvaluationAsync rejected with
  progress,          \* the percentages handed to progressCallback, in order
  local,             \* the locals of the running processEvaluationAsync
  usageCount,        \* usageStats.evaluationsCount of the user for today
  ocrPhase,          \* processImage: "idle", "racing", "returned", "threw"
  preferredProvider, \* options.preferredProvider of the processImage call
  providers,         \* local providers (the trial order) of processImage
  current,           \* index in providers of the attempt being raced
  invoked,           \* the providers whose processImage this call has called, in order
  results,           \* local results of processImage
  errors,            \* local errors of processImage
  ocrOutcome,        \* what processImage returned or threw
  inFlight,          \* provider calls abandoned at their timeout, not yet settled
  imageBuffer,       \* the bytes processImage was called with
  storage,           \* the keys of the objects held by the blob store
  cleanup,           \* the cleanup timer: "unset", "scheduled", "ran"
  lastRead,          \* what the latest getEvaluationStatus returned
  limits,            \* RateLimitService.limits: id -> {count, reset}
  now,               \* Date.now()
  options,           \* the options the callers of checkLimit pass
  calls,             \* the checkLimit calls made so far and what each returned
  response,          \* the latest response of the submission route
  analyses,          \* the analyzeHandwriting calls made: arguments and result
  jobs               \* the rows, stages and stored objects of concurrent jobs

ocrVars == <<ocrPhase, preferredProvider, providers, current, invoked, results, errors,
            ocrOutcome>>
vars == <<evaluation, caller, request, pc, rejection, progress, local,
          usageCount, ocrVars, inFlight, imageBuffer, storage, cleanup,
          lastRead, limits, now, options, calls, response, analyses, jobs>>
rateVars == <<limits, now, options, calls>>

\* The ids prisma gives the Evaluation rows it creates (@default(cuid())):
\* distinct strings with no '/' in them.
JobIds == {<<"cuid1">>, <<"cuid2">>}

\* No job has been submitted: no row, no stored object.
NoJobs ==
  [rows |-> <<>>, objects |-> <<>>,
   at |-> [j \in JobIds |-> "not_started"],
   fileName |-> [j \in JobIds |-> <<>>]]

NoEvaluation ==
  [status |-> "none", originalImageUrl |-> "null", processedImageUrl |-> "null",
   imageMetadata |-> "null", extractedText |-> "null", ocrProvider |-> "null",
   ocrConfidence |-> Null, contentScore |-> Null, structureScore |-> Null,
   handwritingScore |-> Null, overallScore |-> Null, detailedFeedback |-> "null",
   processingTime |-> "null", completedAt |-> "null", errorMessage |-> <<>>]

NoResult == [provider |-> "none", confidence |-> 0, boxes |-> <<>>]
NoFeedback == [content |-> Null, structure |-> Null, handwriting |-> Null,
               overall |-> Null, source |-> "none"]
NoOutcome == [kind |-> "none"]

\* The locals of processEvaluationAsync before they are assigned, and after
\* the function has ended.
NoLocals ==
  [imageQuality |-> [qualityScore |-> 0, sharpness |-> 0, contrast |-> 0],
   processedImageBuffer |-> "original",
   ocrResult |-> NoResult,
   question |-> [keywords |-> 0],
   contentAnalysis |-> Null,
   structureAnalysis |-> Null,
   handwritingAnalysis |-> Null,
   feedback |-> NoFeedback]

Init ==
  /\ evaluation = NoEvaluation
  /\ caller = "idle"
  /\ request \in [enhanceImage : BOOLEAN]
  /\ pc = "not_started"
  /\ rejection = <<>>
  /\ progress = <<>>
  /\ local = NoLocals
  /\ usageCount = 0
  /\ ocrPhase = "idle"
  /\ preferredProvider = NoPreference
  /\ providers = <<>>
  /\ current = 0
  /\ invoked = <<>>
  /\ results = <<>>
  /\ errors = <<>>
  /\ ocrOutcome = NoOutcome
  /\ inFlight = {}
  /\ imageBuffer = "none"
  /\ storage = {}
  /\ cleanup = "unset"
  /\ lastRead = NoEvaluation
  /\ limits = <<>>
  /\ now = 0
  /\ options = [maxRequests |-> 1, windowMs |-> 2]
  /\ calls = <<>>
  /\ response = [status |-> 0]
  /\ analyses = <<>>
  /\ jobs = NoJobs

(***************************************************************************)
(* Failures of the external collaborators and of the progress sink.        *)
(***************************************************************************)
\* The messages an error raised by collaborator `who` may carry; the errors
\* of the blob store stand for those that carry an empty message.
FailureMessages(who) ==
  IF who = "upload" THEN {<<>>, <<who, " failed">>} ELSE {<<who, " failed">>}

\* processEvaluationAsync rejects with `message` (its catch block rethrows)
\* and its locals are gone.
Reject(message) ==
  /\ pc' = "rejected"
  /\ rejection' = message
  /\ local' = NoLocals

\* A pipeline that goes from the user lookup straight to the final update.
GotoSkippingFeedback(nextPc, newLocal) ==
  /\ pc' = IF nextPc = "feedback" THEN "persist" ELSE nextPc
  /\ rejection' = rejection
  /\ local' = newLocal

\* The pipeline goes on to `nextPc` with the locals `newLocal`.
Goto(nextPc, newLocal) ==
  /\ pc' = nextPc
  /\ rejection' = rejection
  /\ local' = newLocal

\* A sink that is handed the percentages ahead of those it already has.
UpdateProgressPrepending(percents, delivered, message, nextPc, newLocal) ==
  IF delivered >= Len(percents)
  THEN /\ progress' = percents \o progress
       /\ Goto(nextPc, newLocal)
  ELSE /\ progress' = SubSeq(percents, 1, delivered + 1) \o progress
       /\ Reject(message)

\* The updateProgress calls of one synchronous stretch of the pipeline, the
\* percentages `percents` in order, of which the sink accepts the first
\* `delivered`; the next one, if any, is invoked and throws `message`.
\* When none throws the pipeline goes on to `nextPc` with `newLocal`.
UpdateProgress(percents, delivered, message, nextPc, newLocal) ==
  IF delivered >= Len(percents)
  THEN /\ progress' = progress \o percents
       /\ Goto(nextPc, newLocal)
  ELSE /\ progress' = progress \o SubSeq(percents, 1, delivered + 1)
       /\ Reject(message)

(***************************************************************************)
(* OCROrchestrator.processImage                                            *)
(***************************************************************************)
\* The call of processImage up to its first await: the trial order is built
\* and the first provider is raced against the timeout.
CallProcessImage(buffer, preferred) ==
  /\ imageBuffer' = buffer
  /\ ocrPhase' = "racing"
  /\ preferredProvider' = preferred
  /\ providers' = getProviderOrder(preferred)
  /\ current' = 1
  /\ invoked' = <<getProviderOrder(preferred)[1]>>
  /\ results' = <<>>
  /\ errors' = <<>>
  /\ ocrOutcome' = NoOutcome

\* A loop that gives up at the first failed attempt.
AfterAttemptFailFast(rs, es) ==
  /\ results' = rs
  /\ errors' = es
  /\ UNCHANGED <<preferredProvider, providers, current, invoked>>
  /\ IF Len(es) > 0
     THEN /\ ocrPhase' = "threw"
          /\ ocrOutcome' = [kind |-> "error", error |-> AggregateError(es)]
     ELSE /\ ocrPhase' = "returned"
          /\ ocrOutcome' = [kind |-> "result", result |-> bestResult(rs)]

\* A loop that tries a provider whose attempt failed a second time.
AfterAttemptRetry(rs, es) ==
  /\ results' = rs
  /\ errors' = es
  /\ UNCHANGED <<preferredProvider, providers>>
  /\ IF Len(es) > Len(errors) /\ Len(invoked) = current
     THEN /\ current' = current
          /\ invoked' = Append(invoked, providers[current])
          /\ ocrPhase' = "racing"
          /\ ocrOutcome' = ocrOutcome
     ELSE /\ invoked' = invoked
          /\ current' = current
          /\ IF Len(rs) > 0
             THEN /\ ocrPhase' = "returned"
                  /\ ocrOutcome' = [kind |-> "result", result |-> bestResult(rs)]
             ELSE /\ ocrPhase' = "threw"
                  /\ ocrOutcome' = [kind |-> "error", error |-> AggregateError(es)]

\* The loop after an attempt that did not return: the next provider is
\* raced, or the loop ends and the best result is returned, or the aggregate
\* error is thrown.
AfterAttempt(rs, es) ==
  /\ results' = rs
  /\ errors' = es
  /\ UNCHANGED <<preferredProvider, providers>>
  /\ IF current < Len(providers)
     THEN /\ current' = current + 1
          /\ invoked' = Append(invoked, providers[current + 1])
          /\ ocrPhase' = "racing"
          /\ ocrOutcome' = ocrOutcome
     ELSE /\ current' = current
          /\ invoked' = invoked
          /\ IF Len(rs) > 0
             THEN /\ ocrPhase' = "returned"
                  /\ ocrOutcome' = [kind |-> "result", result |-> bestResult(rs)]
             ELSE /\ ocrPhase' = "threw"
                  /\ ocrOutcome' = [kind |-> "error", error |-> AggregateError(es)]

\* The word boxes an adapter may attach to a result of confidence c: none
\* (aws-textract and azure-ocr attach none), or six words recognised alike.
BoundingBoxes(p, c) ==
  IF p \in {"google-vision", "tesseract"}
  THEN {<<c, c, c, c, c, c>>}
  ELSE {<<>>}

\* A loop that asks a provider again when its result is below the threshold.
RecordResultRetrying(result) ==
  IF MeetsThreshold(result.confidence)
  THEN /\ results' = Append(results, result)
       /\ ocrPhase' = "returned"
       /\ ocrOutcome' = [kind |-> "result", result |-> result]
       /\ UNCHANGED <<preferredProvider, providers, current, invoked, errors>>
  ELSE IF Len(invoked) = current
       THEN /\ invoked' = Append(invoked, providers[current])
            /\ UNCHANGED <<ocrPhase, preferredProvider, providers, current, results,
                           errors, ocrOutcome>>
       ELSE AfterAttempt(Append(results, result), errors)

\* results.push(result) and the threshold test.
RecordResult(result) ==
  IF MeetsThreshold(result.confidence)
  THEN /\ results' = Append(results, result)
       /\ ocrPhase' = "returned"
       /\ ocrOutcome' = [kind |-> "result", result |-> result]
       /\ UNCHANGED <<preferredProvider, providers, current, invoked, errors>>
  ELSE AfterAttempt(Append(results, result), errors)

\* The provider's promise settles first, fulfilled.
ProviderResolves ==
  /\ ocrPhase = "racing"
  /\ \E c \in Confidences :
       \E b \in BoundingBoxes(providers[current], c) :
         RecordResult([provider |-> providers[current], confidence |-> c, boxes |-> b])
  /\ UNCHANGED <<evaluation, caller, request, pc, rejection, progress, local,
                 usageCount, inFlight>>
  /\ UNCHANGED imageBuffer
  /\ UNCHANGED storage
  /\ UNCHANGED cleanup
  /\ UNCHANGED lastRead
  /\ UNCHANGED rateVars
  /\ UNCHANGED response
  /\ UNCHANGED analyses
  /\ UNCHANGED jobs

\* The provider's promise settles first, rejected with the adapter's OCRError.
ProviderRejects ==
  /\ ocrPhase = "racing"
  /\ \E cause \in AdapterCauses :
       AfterAttempt(results, Append(errors, AdapterError(providers[current], cause)))
  /\ UNCHANGED <<evaluation, caller, request, pc, rejection, progress, local,
                 usageCount, inFlight>>
  /\ UNCHANGED imageBuffer
  /\ UNCHANGED storage
  /\ UNCHANGED cleanup
  /\ UNCHANGED lastRead
  /\ UNCHANGED rateVars
  /\ UNCHANGED response
  /\ UNCHANGED analyses
  /\ UNCHANGED jobs

\* The timeout settles first: the attempt fails and the provider's call is
\* left running.
TimeoutFires ==
  /\ ocrPhase = "racing"
  /\ AfterAttempt(results, Append(errors, WrappedTimeout(providers[current])))
  /\ inFlight' = IF Cardinality(inFlight) < MaxLateCalls
                 THEN inFlight \cup {providers[current]}
                 ELSE inFlight
  /\ UNCHANGED <<evaluation, caller, request, pc, rejection, progress, local,
                 usageCount>>
  /\ UNCHANGED imageBuffer
  /\ UNCHANGED storage
  /\ UNCHANGED cleanup
  /\ UNCHANGED lastRead
  /\ UNCHANGED rateVars
  /\ UNCHANGED response
  /\ UNCHANGED analyses
  /\ UNCHANGED jobs

\* A race that still records what the abandoned call delivers.
LateResultRecorded(p, result) ==
  /\ results' = IF ocrPhase = "racing" THEN Append(results, result) ELSE results
  /\ UNCHANGED <<ocrPhase, preferredProvider, providers, current, invoked, errors,
                 ocrOutcome>>

\* What the settlement of an abandoned call with `result` changes in the
\* locals of processImage: nothing, the race was already decided.
LateResult(p, result) == UNCHANGED ocrVars

\* An abandoned call is fulfilled after its timeout.
LateResolve ==
  /\ \E p \in inFlight :
       /\ inFlight' = inFlight \ {p}
       /\ \E c \in Confidences :
            LateResult(p, [provider |-> p, confidence |-> c, boxes |-> <<>>])
  /\ UNCHANGED <<evaluation, caller, request, pc, rejection, progress, local,
                 usageCount>>
  /\ UNCHANGED imageBuffer
  /\ UNCHANGED storage
  /\ UNCHANGED cleanup
  /\ UNCHANGED lastRead
  /\ UNCHANGED rateVars
  /\ UNCHANGED response
  /\ UNCHANGED analyses
  /\ UNCHANGED jobs

\* An abandoned call is rejected after its timeout.
LateReject ==
  /\ \E p \in inFlight : inFlight' = inFlight \ {p}
  /\ UNCHANGED <<evaluation, caller, request, pc, rejection, progress, local,
                 usageCount, ocrVars>>
  /\ UNCHANGED imageBuffer
  /\ UNCHANGED storage
  /\ UNCHANGED cleanup
  /\ UNCHANGED lastRead
  /\ UNCHANGED rateVars
  /\ UNCHANGED response
  /\ UNCHANGED analyses
  /\ UNCHANGED jobs

(***************************************************************************)
(* FeedbackGenerator.analyzeHandwriting and the scoring fallbacks.         *)
(***************************************************************************)
RECURSIVE Sum(_)
Sum(s) == IF s = <<>> THEN 0 ELSE Head(s) + Sum(Tail(s))

Squares(s) == [i \in 1..Len(s) |-> s[i] * s[i]]

\* Math.max(0, Math.round((1 - stdDev) * 100)) for the word confidences cs
\* (percentages): 100 less the standard deviation, rounded.  With n words,
\* n * n * variance is n * Sum(c^2) - Sum(c)^2.
ConsistencyOf(cs) ==
  LET n == Len(cs)
      v4 == 4 * (n * Sum(Squares(cs)) - Sum(cs) * Sum(cs))
      r == CHOOSE k \in 0..100 :
             /\ (k = 0 \/ (2 * k - 1) * (2 * k - 1) * n * n < v4)
             /\ v4 <= (2 * k + 1) * (2 * k + 1) * n * n
  IN 100 - r

\* An analysis whose neatness drifts with the calls made before it.
HandwritingScoresDrifting(result, quality) ==
  LET legibilityScore == result.confidence
      consistencyScore == IF Len(result.boxes) > 5 THEN ConsistencyOf(result.boxes) ELSE 75
      neatnessScore == RoundDiv(quality.qualityScore + quality.sharpness + quality.contrast, 3)
                         - Len(analyses)
  IN [legibilityScore |-> legibilityScore,
      consistencyScore |-> consistencyScore,
      neatnessScore |-> neatnessScore,
      overallHandwritingScore |->
        RoundDiv(5 * legibilityScore + 3 * consistencyScore + 2 * neatnessScore, 10)]

\* analyzeHandwriting: the four scores it returns.
HandwritingScores(result, quality) ==
  LET legibilityScore == result.confidence
      consistencyScore == IF Len(result.boxes) > 5 THEN ConsistencyOf(result.boxes) ELSE 75
      neatnessScore == RoundDiv(quality.qualityScore + quality.sharpness + quality.contrast, 3)
  IN [legibilityScore |-> legibilityScore,
      consistencyScore |-> consistencyScore,
      neatnessScore |-> neatnessScore,
      overallHandwritingScore |->
        RoundDiv(5 * legibilityScore + 3 * consistencyScore + 2 * neatnessScore, 10)]

\* analyzeHandwriting: the overall handwriting score.
analyzeHandwriting(result, quality) ==
  Num(HandwritingScores(result, quality).overallHandwritingScore)

\* getDefaultContentAnalysis: overallContentScore for a question of
\* `keywords` keywords of which `covered` occur in the text;
\* (covered / keywords) * 100 is NaN when the question has no keyword.
getDefaultContentAnalysis(keywords, covered) ==
  IF keywords = 0 THEN NaN
  ELSE Num(RoundDiv(100 * covered + 145 * keywords, 3 * keywords))

\* getDefaultStructureAnalysis: overallStructureScore.
getDefaultStructureAnalysis == Num(68)

\* Math.round(c * 0.5 + s * 0.3 + h * 0.2) of getDefaultFeedback.
WeightedOverall(c, s, h) ==
  IF IsNum(c) /\ IsNum(s) /\ IsNum(h)
  THEN Num(RoundDiv(5 * c.v + 3 * s.v + 2 * h.v, 10))
  ELSE NaN

\* getDefaultFeedback: its scoreBreakdown.
getDefaultFeedback(content, structure, handwriting) ==
  [content |-> content, structure |-> structure, handwriting |-> handwriting,
   overall |-> WeightedOverall(content, structure, handwriting),
   source |-> "default"]

\* Scores the language model may put in the JSON it answers with: nothing
\* checks them against 0..100, nor that the field is there.
ModelScores == {Num(80), Num(150), Undefined}

\* The scoreBreakdown of a parsed answer of the feedback model: the scores
\* it was given, scores of its own, or a breakdown lacking a field.
ModelBreakdowns(content, structure, handwriting) ==
  { [content |-> content, structure |-> structure, handwriting |-> handwriting,
     overall |-> Num(75), source |-> "model"],
    [content |-> Num(150), structure |-> Num(80), handwriting |-> Num(80),
     overall |-> Num(150), source |-> "model"],
    [content |-> Num(80), structure |-> Num(80), handwriting |-> Num(80),
     overall |-> Undefined, source |-> "model"] }

\* What assessImageQuality may return.
QualityChoices ==
  { [qualityScore |-> q, sharpness |-> 50, contrast |-> 60] : q \in {EnhanceBelow - 1, EnhanceBelow} }

\* Questions the store may hold: with no keyword, or with one.
KeywordCounts == {0, 1}

(***************************************************************************)
(* storage-service: uploadToS3 and deleteFromS3.                           *)
(***************************************************************************)
\* The keys the pipeline uploads under: evaluations/<id>/original-<fileName>
\* and evaluations/<id>/processed-<fileName>.
OriginalKey == <<"evaluations/id/original-file">>
ProcessedKey == <<"evaluations/id/processed-file">>

\* The URL uploadToS3 returns for a key: https://<bucket>.s3.<region>.amazonaws.com/<key>
S3Url(key) == <<"https://bucket.s3.region.amazonaws.com/">> \o key

\* PutObject: the store holds an object under `key`.
uploadToS3(store, key) == store \cup {key}

\* DeleteObject: the object under `key`, if any, is gone.
deleteFromS3(store, key) == store \ {key}

(***************************************************************************)
(* EvaluationService.startEvaluation and processEvaluationAsync            *)
(***************************************************************************)
\* A startEvaluation to whose caller the failure of the first progress call
\* is raised.
StartEvaluationRaising ==
  /\ caller = "idle"
  /\ \/ /\ evaluation' = [NoEvaluation EXCEPT !.status = "PROCESSING",
                                              !.originalImageUrl = ""]
        /\ \E d \in 0..1, m \in FailureMessages("progress sink") :
             /\ UpdateProgress(<<5>>, d, m, "upload_original", local)
             /\ caller' = IF d = 0 THEN "raised" ELSE "returned"
     \/ /\ caller' = "raised"
        /\ UNCHANGED <<evaluation, pc, rejection, progress, local>>
  /\ UNCHANGED <<request, usageCount, ocrVars, inFlight>>
  /\ UNCHANGED imageBuffer
  /\ UNCHANGED storage
  /\ UNCHANGED cleanup
  /\ UNCHANGED lastRead
  /\ UNCHANGED rateVars
  /\ UNCHANGED response
  /\ UNCHANGED analyses
  /\ UNCHANGED jobs

\* startEvaluation: the row is created, processEvaluationAsync runs up to
\* its first await (the first progress call, the upload is issued), and the
\* identifier is returned; or the create fails and startEvaluation raises.
startEvaluation(withCallback) ==
  \/ /\ evaluation' = [NoEvaluation EXCEPT !.status = "PROCESSING",
                                           !.originalImageUrl = ""]
     /\ caller' = "returned"
     /\ IF withCallback
        THEN \E d \in 0..1, m \in FailureMessages("progress sink") :
               UpdateProgress(<<5>>, d, m, "upload_original", local)
        ELSE /\ progress' = progress
             /\ Goto("upload_original", local)
  \/ /\ caller' = "raised"
     /\ UNCHANGED <<evaluation, pc, rejection, progress, local>>

\* A caller of the service submits a job with a progress callback.
StartEvaluation ==
  /\ caller = "idle"
  /\ startEvaluation(TRUE)
  /\ UNCHANGED <<request, usageCount, ocrVars, inFlight>>
  /\ UNCHANGED imageBuffer
  /\ UNCHANGED storage
  /\ UNCHANGED cleanup
  /\ UNCHANGED lastRead
  /\ UNCHANGED rateVars
  /\ UNCHANGED response
  /\ UNCHANGED analyses
  /\ UNCHANGED jobs

\* await uploadToS3(original)
UploadOriginal ==
  /\ pc = "upload_original"
  /\ \/ /\ Goto("update_original", local)
        /\ storage' = uploadToS3(storage, OriginalKey)
     \/ /\ \E m \in FailureMessages("upload") : Reject(m)
        /\ UNCHANGED storage
  /\ UNCHANGED <<evaluation, caller, request, progress, usageCount, ocrVars, inFlight>>
  /\ UNCHANGED imageBuffer
  /\ UNCHANGED cleanup
  /\ UNCHANGED lastRead
  /\ UNCHANGED rateVars
  /\ UNCHANGED response
  /\ UNCHANGED analyses
  /\ UNCHANGED jobs

\* await prisma.evaluation.update({originalImageUrl}), then the next progress
\* call; assessImageQuality is issued.
UpdateOriginalUrl ==
  /\ pc = "update_original"
  /\ \/ /\ evaluation' = [evaluation EXCEPT !.originalImageUrl = "original-url"]
        /\ \E d \in 0..1, m \in FailureMessages("progress sink") :
             UpdateProgress(<<10>>, d, m, "assess", local)
     \/ /\ \E m \in FailureMessages("evaluation.update") : Reject(m)
        /\ UNCHANGED <<evaluation, progress>>
  /\ UNCHANGED <<caller, request, usageCount, ocrVars, inFlight>>
  /\ UNCHANGED imageBuffer
  /\ UNCHANGED storage
  /\ UNCHANGED cleanup
  /\ UNCHANGED lastRead
  /\ UNCHANGED rateVars
  /\ UNCHANGED response
  /\ UNCHANGED analyses
  /\ UNCHANGED jobs

\* The branch with <= for <.
NeedsEnhancementInclusive(enhanceImage, qualityScore) ==
  enhanceImage \/ qualityScore <= EnhanceBelow

\* The branch after assessImageQuality.
NeedsEnhancement(enhanceImage, qualityScore) ==
  enhanceImage \/ qualityScore < EnhanceBelow

\* await assessImageQuality: then either the enhancement is issued, or the
\* orchestrator is called with the original bytes.
AssessImageQuality ==
  /\ pc = "assess"
  /\ \/ \E q \in QualityChoices :
          IF NeedsEnhancement(request.enhanceImage, q.qualityScore)
          THEN /\ \E d \in 0..1, m \in FailureMessages("progress sink") :
                    UpdateProgress(<<15>>, d, m, "enhance",
                                   [local EXCEPT !.imageQuality = q])
               /\ UNCHANGED <<ocrVars, imageBuffer>>
          ELSE \E d \in 0..1, m \in FailureMessages("progress sink"),
                  preferred \in PreferredChoices :
                 /\ UpdateProgress(<<25>>, d, m, "ocr",
                                   [local EXCEPT !.imageQuality = q])
                 /\ IF d = 1 THEN CallProcessImage(local.processedImageBuffer, preferred)
                    ELSE UNCHANGED <<ocrVars, imageBuffer>>
     \/ /\ \E m \in FailureMessages("image assessor") : Reject(m)
        /\ UNCHANGED <<progress, ocrVars, imageBuffer>>
  /\ UNCHANGED <<evaluation, caller, request, usageCount, inFlight>>
  /\ UNCHANGED storage
  /\ UNCHANGED cleanup
  /\ UNCHANGED lastRead
  /\ UNCHANGED rateVars
  /\ UNCHANGED response
  /\ UNCHANGED analyses
  /\ UNCHANGED jobs

\* await enhanceImage
EnhanceImage ==
  /\ pc = "enhance"
  /\ \/ Goto("upload_processed", [local EXCEPT !.processedImageBuffer = "enhanced"])
     \/ \E m \in FailureMessages("image enhancer") : Reject(m)
  /\ UNCHANGED <<evaluation, caller, request, progress, usageCount, ocrVars, inFlight>>
  /\ UNCHANGED imageBuffer
  /\ UNCHANGED storage
  /\ UNCHANGED cleanup
  /\ UNCHANGED lastRead
  /\ UNCHANGED rateVars
  /\ UNCHANGED response
  /\ UNCHANGED analyses
  /\ UNCHANGED jobs

\* await uploadToS3(processed)
UploadProcessed ==
  /\ pc = "upload_processed"
  /\ \/ /\ Goto("update_processed", local)
        /\ storage' = uploadToS3(storage, ProcessedKey)
     \/ /\ \E m \in FailureMessages("upload") : Reject(m)
        /\ UNCHANGED storage
  /\ UNCHANGED <<evaluation, caller, request, progress, usageCount, ocrVars, inFlight>>
  /\ UNCHANGED imageBuffer
  /\ UNCHANGED cleanup
  /\ UNCHANGED lastRead
  /\ UNCHANGED rateVars
  /\ UNCHANGED response
  /\ UNCHANGED analyses
  /\ UNCHANGED jobs

\* await prisma.evaluation.update({processedImageUrl, imageMetadata}), then
\* the orchestrator is called with the enhanced bytes.
UpdateProcessedUrl ==
  /\ pc = "update_processed"
  /\ \/ /\ evaluation' = [evaluation EXCEPT !.processedImageUrl = "processed-url",
                                            !.imageMetadata = "imageQuality"]
        /\ \E d \in 0..1, m \in FailureMessages("progress sink"),
              preferred \in PreferredChoices :
             /\ UpdateProgress(<<25>>, d, m, "ocr", local)
             /\ IF d = 1 THEN CallProcessImage(local.processedImageBuffer, preferred)
                ELSE UNCHANGED <<ocrVars, imageBuffer>>
     \/ /\ \E m \in FailureMessages("evaluation.update") : Reject(m)
        /\ UNCHANGED <<evaluation, progress, ocrVars, imageBuffer>>
  /\ UNCHANGED <<caller, request, usageCount, inFlight>>
  /\ UNCHANGED storage
  /\ UNCHANGED cleanup
  /\ UNCHANGED lastRead
  /\ UNCHANGED rateVars
  /\ UNCHANGED response
  /\ UNCHANGED analyses
  /\ UNCHANGED jobs

\* The locals of a finished processImage call are gone.
ReleaseProcessImage ==
  /\ imageBuffer' = "none"
  /\ ocrPhase' = "idle"
  /\ preferredProvider' = NoPreference
  /\ providers' = <<>>
  /\ current' = 0
  /\ invoked' = <<>>
  /\ results' = <<>>
  /\ errors' = <<>>
  /\ ocrOutcome' = NoOutcome

\* await ocrOrchestrator.processImage: with its result the row update is
\* issued; its error rejects the pipeline.
ResumeAfterOcr ==
  /\ pc = "ocr"
  /\ ocrPhase \in {"returned", "threw"}
  /\ IF ocrPhase = "returned"
     THEN Goto("update_ocr", [local EXCEPT !.ocrResult = ocrOutcome.result])
     ELSE Reject(ocrOutcome.error.message)
  /\ ReleaseProcessImage
  /\ UNCHANGED <<evaluation, caller, request, progress, usageCount, inFlight>>
  /\ UNCHANGED storage
  /\ UNCHANGED cleanup
  /\ UNCHANGED lastRead
  /\ UNCHANGED rateVars
  /\ UNCHANGED response
  /\ UNCHANGED analyses
  /\ UNCHANGED jobs

\* await prisma.evaluation.update({extractedText, ocrProvider, ...}), then
\* the progress call; the question lookup is issued.
UpdateOcr ==
  /\ pc = "update_ocr"
  /\ \/ /\ evaluation' = [evaluation EXCEPT
             !.extractedText = local.ocrResult.provider,
             !.ocrProvider = local.ocrResult.provider,
             !.ocrConfidence = Num(local.ocrResult.confidence)]
        /\ \E d \in 0..1, m \in FailureMessages("progress sink") :
             UpdateProgress(<<50>>, d, m, "find_question", local)
     \/ /\ \E m \in FailureMessages("evaluation.update") : Reject(m)
        /\ UNCHANGED <<evaluation, progress>>
  /\ UNCHANGED <<caller, request, usageCount, ocrVars, inFlight>>
  /\ UNCHANGED imageBuffer
  /\ UNCHANGED storage
  /\ UNCHANGED cleanup
  /\ UNCHANGED lastRead
  /\ UNCHANGED rateVars
  /\ UNCHANGED response
  /\ UNCHANGED analyses
  /\ UNCHANGED jobs

\* await prisma.question.findUnique: a missing question throws; otherwise
\* the progress call, and analyzeContent is issued.
FindQuestion ==
  /\ pc = "find_question"
  /\ \/ \E k \in KeywordCounts, d \in 0..1, m \in FailureMessages("progress sink") :
          UpdateProgress(<<55>>, d, m, "content",
                         [local EXCEPT !.question = [keywords |-> k]])
     \/ /\ Reject(<<"Question not found">>)
        /\ UNCHANGED progress
     \/ /\ \E m \in FailureMessages("store") : Reject(m)
        /\ UNCHANGED progress
  /\ UNCHANGED <<evaluation, caller, request, usageCount, ocrVars, inFlight>>
  /\ UNCHANGED imageBuffer
  /\ UNCHANGED storage
  /\ UNCHANGED cleanup
  /\ UNCHANGED lastRead
  /\ UNCHANGED rateVars
  /\ UNCHANGED response
  /\ UNCHANGED analyses
  /\ UNCHANGED jobs

\* What analyzeContent may resolve with for a question of `keywords`
\* keywords: the parsed answer of the model (JSON.parse(content) as
\* ContentAnalysisResult), or the default analysis when the model failed.
ContentScores(keywords) ==
  ModelScores \cup {getDefaultContentAnalysis(keywords, c) : c \in 0..keywords}

\* What analyzeStructure may resolve with.
StructureScores == ModelScores \cup {getDefaultStructureAnalysis}

\* await analyzeContent, then the progress call; analyzeStructure is issued.
AnalyzeContent ==
  /\ pc = "content"
  /\ \E score \in ContentScores(local.question.keywords),
        d \in 0..1, m \in FailureMessages("progress sink") :
       UpdateProgress(<<65>>, d, m, "structure",
                      [local EXCEPT !.contentAnalysis = score])
  /\ UNCHANGED <<evaluation, caller, request, usageCount, ocrVars, inFlight>>
  /\ UNCHANGED imageBuffer
  /\ UNCHANGED storage
  /\ UNCHANGED cleanup
  /\ UNCHANGED lastRead
  /\ UNCHANGED rateVars
  /\ UNCHANGED response
  /\ UNCHANGED analyses
  /\ UNCHANGED jobs

\* await analyzeStructure, the progress call, analyzeHandwriting, the
\* progress call; the user lookup is issued.
AnalyzeStructure ==
  /\ pc = "structure"
  /\ \E score \in StructureScores, d \in 0..2, m \in FailureMessages("progress sink") :
       UpdateProgress(<<75, 85>>, d, m, "find_user",
                      [local EXCEPT
                         !.structureAnalysis = score,
                         !.handwritingAnalysis =
                            analyzeHandwriting(local.ocrResult, local.imageQuality)])
  /\ UNCHANGED <<evaluation, caller, request, usageCount, ocrVars, inFlight>>
  /\ UNCHANGED imageBuffer
  /\ UNCHANGED storage
  /\ UNCHANGED cleanup
  /\ UNCHANGED lastRead
  /\ UNCHANGED rateVars
  /\ UNCHANGED response
  /\ UNCHANGED analyses
  /\ UNCHANGED jobs

\* await prisma.user.findUnique; generateComprehensiveFeedback is issued.
FindUser ==
  /\ pc = "find_user"
  /\ \/ Goto("feedback", local)
     \/ \E m \in FailureMessages("store") : Reject(m)
  /\ UNCHANGED <<evaluation, caller, request, progress, usageCount, ocrVars, inFlight>>
  /\ UNCHANGED imageBuffer
  /\ UNCHANGED storage
  /\ UNCHANGED cleanup
  /\ UNCHANGED lastRead
  /\ UNCHANGED rateVars
  /\ UNCHANGED response
  /\ UNCHANGED analyses
  /\ UNCHANGED jobs

\* What generateComprehensiveFeedback may resolve with: the parsed answer of
\* the model (JSON.parse(content) as GeneratedFeedback), or getDefaultFeedback
\* when the call failed, answered nothing or answered no JSON.
generateComprehensiveFeedback(content, structure, handwriting) ==
  ModelBreakdowns(content, structure, handwriting)
    \cup {getDefaultFeedback(content, structure, handwriting)}

\* The TypeError of reading feedback.scoreBreakdown.content when the parsed
\* answer has no scoreBreakdown.
NoBreakdownError == <<"Cannot read properties of undefined (reading 'content')">>

\* await generateComprehensiveFeedback, then the progress call, and the
\* final update is built from feedback.scoreBreakdown and issued.
GenerateFeedback ==
  /\ pc = "feedback"
  /\ \/ \E f \in generateComprehensiveFeedback(local.contentAnalysis,
                   local.structureAnalysis, local.handwritingAnalysis),
           d \in 0..1, m \in FailureMessages("progress sink") :
          UpdateProgress(<<95>>, d, m, "persist", [local EXCEPT !.feedback = f])
     \/ \* an answer without scoreBreakdown: the sink is called, and if it
        \* does not throw, reading feedback.scoreBreakdown.content does
        \E d \in 0..1, m \in FailureMessages("progress sink") :
          /\ progress' = Append(progress, 95)
          /\ Reject(IF d = 1 THEN NoBreakdownError ELSE m)
  /\ UNCHANGED <<evaluation, caller, request, usageCount, ocrVars, inFlight>>
  /\ UNCHANGED imageBuffer
  /\ UNCHANGED storage
  /\ UNCHANGED cleanup
  /\ UNCHANGED lastRead
  /\ UNCHANGED rateVars
  /\ UNCHANGED response
  /\ UNCHANGED analyses
  /\ UNCHANGED jobs

\* The row as the final update writes it from the scoreBreakdown f.
CompletedRow(row, f) ==
  [row EXCEPT
     !.contentScore = Stored(@, f.content),
     !.structureScore = Stored(@, f.structure),
     !.handwritingScore = Stored(@, f.handwriting),
     !.overallScore = Stored(@, f.overall),
     !.detailedFeedback = f.source,
     !.status = "COMPLETED",
     !.processingTime = "elapsed",
     !.completedAt = "now"]

\* await prisma.evaluation.update({...scores, status: 'COMPLETED', ...});
\* updateUsageStats is issued.
PersistFinal ==
  /\ pc = "persist"
  /\ \/ /\ evaluation' = CompletedRow(evaluation, local.feedback)
        /\ Goto("usage", local)
     \/ /\ \E m \in FailureMessages("evaluation.update") : Reject(m)
        /\ UNCHANGED evaluation
  /\ UNCHANGED <<caller, request, progress, usageCount, ocrVars, inFlight>>
  /\ UNCHANGED imageBuffer
  /\ UNCHANGED storage
  /\ UNCHANGED cleanup
  /\ UNCHANGED lastRead
  /\ UNCHANGED rateVars
  /\ UNCHANGED response
  /\ UNCHANGED analyses
  /\ UNCHANGED jobs

\* await this.updateUsageStats, the cleanup timer is set, and the last
\* progress call; processEvaluationAsync is fulfilled.
UpdateUsageStats ==
  /\ pc = "usage"
  /\ \/ /\ usageCount' = usageCount + 1
        /\ cleanup' = "scheduled"
        /\ \E d \in 0..1, m \in FailureMessages("progress sink") :
             UpdateProgress(<<100>>, d, m, "done", NoLocals)
     \/ /\ \E m \in FailureMessages("store") : Reject(m)
        /\ UNCHANGED <<usageCount, progress, cleanup>>
  /\ UNCHANGED <<evaluation, caller, request, ocrVars, inFlight>>
  /\ UNCHANGED imageBuffer
  /\ UNCHANGED storage
  /\ UNCHANGED lastRead
  /\ UNCHANGED rateVars
  /\ UNCHANGED response
  /\ UNCHANGED analyses
  /\ UNCHANGED jobs

\* The callback of the cleanup timer, 24 hours after it was set:
\* deleteFromS3 is handed originalImageUrl (the URL uploadToS3 returned) as
\* the key to delete; then reading evaluation.processedImageUrl throws, as
\* no `evaluation` is in scope in processEvaluationAsync, and the catch
\* block logs it.  A rejected delete is logged likewise.
CleanupTimerFires ==
  /\ cleanup = "scheduled"
  /\ cleanup' = "ran"
  /\ \/ storage' = deleteFromS3(storage, S3Url(OriginalKey))
     \/ UNCHANGED storage
  /\ UNCHANGED <<evaluation, caller, request, pc, rejection, progress, local,
                 usageCount, ocrVars, inFlight, imageBuffer>>
  /\ UNCHANGED lastRead
  /\ UNCHANGED rateVars
  /\ UNCHANGED response
  /\ UNCHANGED analyses
  /\ UNCHANGED jobs

\* getEvaluationStatus: the row as persisted is returned (no row, before the
\* create); nothing is written.
GetEvaluationStatus ==
  /\ lastRead' = evaluation
  /\ UNCHANGED <<evaluation, caller, request, pc, rejection, progress, local,
                 usageCount, ocrVars, inFlight, imageBuffer, storage, cleanup>>
  /\ UNCHANGED rateVars
  /\ UNCHANGED response
  /\ UNCHANGED analyses
  /\ UNCHANGED jobs

\* A handler that records the fallback text whatever the error says.
ErrorMessageGeneric(message) == <<"Unknown error occurred">>

\* error.message || 'Unknown error occurred'
ErrorMessageOf(message) ==
  IF message = <<>> THEN <<"Unknown error occurred">> ELSE message

\* A handler that marks the job CANCELLED.
FailedRowCancelled(row, message) ==
  [row EXCEPT !.status = "CANCELLED", !.errorMessage = ErrorMessageOf(message)]

\* A write of FAILED that puts the row back as it was created.
FailedRowRollback(row, message) ==
  [NoEvaluation EXCEPT !.status = "FAILED", !.originalImageUrl = "",
                       !.errorMessage = ErrorMessageOf(message)]

\* The write of handleEvaluationError.
FailedRow(row, message) ==
  [row EXCEPT !.status = "FAILED", !.errorMessage = ErrorMessageOf(message)]

\* The catch handler of startEvaluation: handleEvaluationError's update is
\* awaited by nobody; if it fails its rejection is unhandled and the row
\* stays as it was.
HandleEvaluationError ==
  /\ pc = "rejected"
  /\ \/ /\ evaluation' = FailedRow(evaluation, rejection)
        /\ pc' = "failed"
     \/ /\ pc' = "unhandled"
        /\ UNCHANGED evaluation
  /\ UNCHANGED <<caller, request, rejection, progress, local, usageCount,
                 ocrVars, inFlight>>
  /\ UNCHANGED imageBuffer
  /\ UNCHANGED storage
  /\ UNCHANGED cleanup
  /\ UNCHANGED lastRead
  /\ UNCHANGED rateVars
  /\ UNCHANGED response
  /\ UNCHANGED analyses
  /\ UNCHANGED jobs

Next ==
  \/ StartEvaluation
  \/ UploadOriginal
  \/ UpdateOriginalUrl
  \/ AssessImageQuality
  \/ EnhanceImage
  \/ UploadProcessed
  \/ UpdateProcessedUrl
  \/ ProviderResolves
  \/ ProviderRejects
  \/ TimeoutFires
  \/ LateResolve
  \/ LateReject
  \/ ResumeAfterOcr
  \/ UpdateOcr
  \/ FindQuestion
  \/ AnalyzeContent
  \/ AnalyzeStructure
  \/ FindUser
  \/ GenerateFeedback
  \/ PersistFinal
  \/ UpdateUsageStats
  \/ HandleEvaluationError
  \/ CleanupTimerFires

Spec == Init /\ [][Next]_vars

(***************************************************************************)
(* RateLimitService                                                        *)
(***************************************************************************)
\* The options a deployment's callers pass: maxRequests and windowMs.
OptionChoices == [maxRequests : {0, 1, 2}, windowMs : {2}]

\* The (userId, key) pairs that call checkLimit; a string is held as the
\* sequence of its parts, so that "a:b" with "c" and "a" with "b:c" differ.
Requesters ==
  { <<(<<"a">>), (<<"c">>)>>,
    <<(<<"a", ":", "b">>), (<<"c">>)>>,
    <<(<<"a">>), (<<"b", ":", "c">>)>> }

\* const id = `${userId}:${key}`
IdOf(userId, key) == userId \o <<":">> \o key

\* this.limits.set(id, record)
MapSet(map, id, record) ==
  [x \in DOMAIN map \cup {id} |-> IF x = id THEN record ELSE map[x]]

\* The expiry test with >= for >.
WindowOverInclusive(map, id, t) ==
  id \notin DOMAIN map \/ t >= map[id].reset

\* !record || now > record.reset
WindowOver(map, id, t) ==
  id \notin DOMAIN map \/ t > map[id].reset

\* The limit test with > for >=.
AtLimitOffByOne(record, opts) == record.count > opts.maxRequests

\* record.count >= options.maxRequests
AtLimit(record, opts) == record.count >= opts.maxRequests

\* A checkLimit that counts the calls it refuses.
checkLimitCountingRefusals(map, userId, key, opts, t) ==
  LET id == IdOf(userId, key)
  IN IF WindowOver(map, id, t)
     THEN [limits |-> MapSet(map, id, [count |-> 1, reset |-> t + opts.windowMs]),
           returns |-> TRUE]
     ELSE [limits |-> MapSet(map, id, [map[id] EXCEPT !.count = @ + 1]),
           returns |-> ~AtLimit(map[id], opts)]

\* A checkLimit that tests maxRequests before it opens a window.
checkLimitTestingFirst(map, userId, key, opts, t) ==
  LET id == IdOf(userId, key)
  IN IF opts.maxRequests = 0
     THEN [limits |-> map, returns |-> FALSE]
     ELSE IF WindowOver(map, id, t)
          THEN [limits |-> MapSet(map, id, [count |-> 1, reset |-> t + opts.windowMs]),
                returns |-> TRUE]
          ELSE IF AtLimit(map[id], opts)
               THEN [limits |-> map, returns |-> FALSE]
               ELSE [limits |-> MapSet(map, id, [map[id] EXCEPT !.count = @ + 1]),
                     returns |-> TRUE]

\* A checkLimit whose windows end one millisecond early.
checkLimitShortWindow(map, userId, key, opts, t) ==
  LET id == IdOf(userId, key)
  IN IF WindowOver(map, id, t)
     THEN [limits |-> MapSet(map, id, [count |-> 1, reset |-> t + opts.windowMs - 1]),
           returns |-> TRUE]
     ELSE IF AtLimit(map[id], opts)
          THEN [limits |-> map, returns |-> FALSE]
          ELSE [limits |-> MapSet(map, id, [map[id] EXCEPT !.count = @ + 1]),
                returns |-> TRUE]

\* checkLimit(userId, key, options): the new contents of limits and the
\* value returned.  The function has no await: it runs as one step.
checkLimit(map, userId, key, opts, t) ==
  LET id == IdOf(userId, key)
  IN IF WindowOver(map, id, t)
     THEN [limits |-> MapSet(map, id, [count |-> 1, reset |-> t + opts.windowMs]),
           returns |-> TRUE]
     ELSE IF AtLimit(map[id], opts)
          THEN [limits |-> map, returns |-> FALSE]
          ELSE [limits |-> MapSet(map, id, [map[id] EXCEPT !.count = @ + 1]),
                returns |-> TRUE]

\* A call that tests the count it read before the call before it was
\* counted: a read-check-update that another call has come between.
CheckLimitStale ==
  /\ Len(calls) < MaxCalls
  /\ \E p \in Requesters :
       LET id == IdOf(p[1], p[2])
           stale == IF id \in DOMAIN limits /\ limits[id].count > 1
                    THEN MapSet(limits, id, [limits[id] EXCEPT !.count = @ - 1])
                    ELSE limits
           outcome == checkLimit(stale, p[1], p[2], options, now)
       IN /\ limits' = IF outcome.returns THEN outcome.limits ELSE limits
          /\ calls' = Append(calls, [userId |-> p[1], key |-> p[2], at |-> now,
                                     admitted |-> outcome.returns])
  /\ UNCHANGED <<now, options>>
  /\ UNCHANGED <<evaluation, caller, request, pc, rejection, progress, local,
                 usageCount, ocrVars, inFlight, imageBuffer, storage, cleanup,
                 lastRead>>
  /\ UNCHANGED response
  /\ UNCHANGED analyses
  /\ UNCHANGED jobs

\* A caller calls checkLimit and receives its answer.
CheckLimit ==
  /\ Len(calls) < MaxCalls
  /\ \E p \in Requesters :
       LET outcome == checkLimit(limits, p[1], p[2], options, now)
       IN /\ limits' = outcome.limits
          /\ calls' = Append(calls, [userId |-> p[1], key |-> p[2], at |-> now,
                                     admitted |-> outcome.returns])
  /\ UNCHANGED <<now, options>>
  /\ UNCHANGED <<evaluation, caller, request, pc, rejection, progress, local,
                 usageCount, ocrVars, inFlight, imageBuffer, storage, cleanup,
                 lastRead>>
  /\ UNCHANGED response
  /\ UNCHANGED analyses
  /\ UNCHANGED jobs

\* Time passes.
Tick ==
  /\ now < MaxClock
  /\ now' = now + 1
  /\ UNCHANGED <<limits, options, calls>>
  /\ UNCHANGED <<evaluation, caller, request, pc, rejection, progress, local,
                 usageCount, ocrVars, inFlight, imageBuffer, storage, cleanup,
                 lastRead>>
  /\ UNCHANGED response
  /\ UNCHANGED analyses
  /\ UNCHANGED jobs

\* A fresh RateLimitService, before any job is submitted.
RateInit ==
  /\ limits = <<>>
  /\ now = 0
  /\ options \in OptionChoices
  /\ calls = <<>>
  /\ response = [status |-> 0]
  /\ analyses = <<>>
  /\ jobs = NoJobs
  /\ evaluation = NoEvaluation
  /\ caller = "idle"
  /\ request = [enhanceImage |-> TRUE]
  /\ pc = "not_started"
  /\ rejection = <<>>
  /\ progress = <<>>
  /\ local = NoLocals
  /\ usageCount = 0
  /\ ocrPhase = "idle"
  /\ preferredProvider = NoPreference
  /\ providers = <<>>
  /\ current = 0
  /\ invoked = <<>>
  /\ results = <<>>
  /\ errors = <<>>
  /\ ocrOutcome = NoOutcome
  /\ inFlight = {}
  /\ imageBuffer = "none"
  /\ storage = {}
  /\ cleanup = "unset"
  /\ lastRead = NoEvaluation

RateNext == CheckLimit \/ Tick

(***************************************************************************)
(* The submission route: POST                                              *)
(***************************************************************************)
\* session.user.id of the request: none (no session, or an empty id), or
\* the id of the signed-in user.
NoSession == <<>>
Sessions == {NoSession, <<"a">>}

\* The key the route counts submissions under.
RouteKey == <<"evaluation">>

\* The form of a submission: whether it holds an image and a questionId,
\* and the type and size (in megabytes) of the image.
Forms ==
  [image : BOOLEAN, questionId : BOOLEAN,
   type : {"image/jpeg", "image/gif"}, size : {MaxUploadSize, MaxUploadSize + 1}]

\* allowedTypes
AllowedTypes == {"image/jpeg", "image/png", "application/pdf"}

\* The size test that lets one megabyte more through.
TooLargeByOne(size) == size > MaxUploadSize + 1

\* imageFile.size > maxSize
TooLarge(size) == size > MaxUploadSize

\* The validation of the form: the status it is refused with, or 0.
Validate(form) ==
  IF ~form.image \/ ~form.questionId THEN 400
  ELSE IF form.type \notin AllowedTypes THEN 400
  ELSE IF TooLarge(form.size) THEN 400
  ELSE 0

\* What the route answers: the request it answered and the answer.
Response(session, allowed, form, status, evaluationId) ==
  [session |-> session, allowed |-> allowed, form |-> form, status |-> status,
   evaluationId |-> evaluationId]

\* POST: the session is checked, then the rate limit, then the form, and
\* startEvaluation is called without a progress callback; what it raises is
\* answered with 500.
Post ==
  /\ \E session \in Sessions, form \in Forms :
       IF session = NoSession
       THEN /\ response' = Response(session, "unasked", form, 401, "none")
            /\ UNCHANGED <<limits, calls, evaluation, caller, pc, rejection,
                           progress, local>>
       ELSE LET outcome == checkLimit(limits, session, RouteKey, options, now)
            IN /\ Len(calls) < MaxCalls
               /\ limits' = outcome.limits
               /\ calls' = Append(calls, [userId |-> session, key |-> RouteKey,
                                          at |-> now, admitted |-> outcome.returns])
               /\ IF ~outcome.returns
                  THEN /\ response' = Response(session, "no", form, 429, "none")
                       /\ UNCHANGED <<evaluation, caller, pc, rejection, progress,
                                      local>>
                  ELSE IF Validate(form) # 0
                  THEN /\ response' = Response(session, "yes", form, Validate(form),
                                               "none")
                       /\ UNCHANGED <<evaluation, caller, pc, rejection, progress,
                                      local>>
                  ELSE /\ caller = "idle"
                       /\ startEvaluation(FALSE)
                       /\ response' = IF caller' = "returned"
                                      THEN Response(session, "yes", form, 200, "id")
                                      ELSE Response(session, "yes", form, 500, "none")
  /\ UNCHANGED <<now, options, request, usageCount, ocrVars, inFlight, imageBuffer,
                 storage, cleanup, lastRead>>
  /\ UNCHANGED analyses
  /\ UNCHANGED jobs

RouteNext == Post \/ Tick

RouteSpec == RateInit /\ [][RouteNext]_vars

(***************************************************************************)
(* FeedbackGenerator.analyzeHandwriting called on its own                  *)
(***************************************************************************)
\* OCR results analyzeHandwriting may be handed: without word boxes, with
\* six words recognised alike, and with six words recognised unevenly.
AnalysisResults ==
  { [provider |-> "tesseract", confidence |-> c, boxes |-> b] :
      c \in {40, MinimumConfidence},
      b \in {<<>>, <<60, 60, 60, 60, 60, 60>>, <<40, 60, 80, 40, 60, 80>>} }

\* A caller calls analyzeHandwriting and receives its scores.
AnalyzeHandwritingCall ==
  /\ Len(analyses) < MaxAnalyses
  /\ \E result \in AnalysisResults, quality \in QualityChoices :
       analyses' = Append(analyses, [result |-> result, quality |-> quality,
                                     scores |-> HandwritingScores(result, quality)])
  /\ UNCHANGED <<evaluation, caller, request, pc, rejection, progress, local,
                 usageCount, ocrVars, inFlight, imageBuffer, storage, cleanup,
                 lastRead, rateVars, response>>
  /\ UNCHANGED jobs

HandwritingSpec == RateInit /\ [][AnalyzeHandwritingCall]_vars

RateSpec == RateInit /\ [][RateNext]_vars

(***************************************************************************)
(* Concurrent jobs: the writes of each run to the rows and to the store    *)
(***************************************************************************)
\* request.fileName, the name of the uploaded file as the client sent it.
FileNames ==
  { <<"scan.png">>, <<"..", "/", "cuid2", "/", "original-", "scan.png">> }

\* `evaluations/${evaluationId}/${kind}-${request.fileName}` without the id.
JobKeyWithoutId(id, kind, name) == <<"evaluations", "/">> \o <<kind>> \o name

\* `evaluations/${evaluationId}/original-${request.fileName}` and
\* `evaluations/${evaluationId}/processed-${request.fileName}`
JobKey(id, kind, name) == <<"evaluations", "/">> \o id \o <<"/", kind>> \o name

\* PutObject of the image of job `id` under `key`.
PutObject(objects, key, id) ==
  [k \in DOMAIN objects \cup {key} |-> IF k = key THEN id ELSE objects[k]]

\* prisma.evaluation.update({ where: { id }, data }) with data given as the
\* row it leaves.
UpdateRow(rows, id, row) ==
  [k \in DOMAIN rows \cup {id} |-> IF k = id THEN row ELSE rows[k]]

\* The run of job j either completes its step, which leaves the rows and
\* the objects as given and the run at `to`, or the step's await rejects and
\* the run is rejected.
JobStep(j, to, rows, objects) ==
  /\ \/ jobs' = [jobs EXCEPT !.rows = rows, !.objects = objects, !.at[j] = to]
     \/ jobs' = [jobs EXCEPT !.at[j] = "rejected"]
  /\ UNCHANGED <<evaluation, caller, request, pc, rejection, progress, local,
                 usageCount, ocrVars, inFlight, imageBuffer, storage, cleanup,
                 lastRead, rateVars, response, analyses>>

\* startEvaluation: prisma.evaluation.create gives the row its id, and the
\* detached run begins.
CreateJob(j) ==
  /\ jobs.at[j] = "not_started"
  /\ \E name \in FileNames :
       jobs' = [jobs EXCEPT
                  !.rows = UpdateRow(@, j, [status |-> "PROCESSING",
                                            originalImageUrl |-> <<>>,
                                            processedImageUrl |-> <<>>,
                                            ocrProvider |-> "null",
                                            errorMessage |-> <<>>]),
                  !.fileName[j] = name,
                  !.at[j] = "upload_original"]
  /\ UNCHANGED <<evaluation, caller, request, pc, rejection, progress, local,
                 usageCount, ocrVars, inFlight, imageBuffer, storage, cleanup,
                 lastRead, rateVars, response, analyses>>

\* await uploadToS3(request.imageBuffer, `evaluations/${evaluationId}/original-...`)
UploadOriginalOf(j) ==
  /\ jobs.at[j] = "upload_original"
  /\ JobStep(j, "update_original", jobs.rows,
             PutObject(jobs.objects, JobKey(j, "original-", jobs.fileName[j]), j))

\* await prisma.evaluation.update({ where: { id: evaluationId }, data: { originalImageUrl } })
\* and the decision whether to enhance.
UpdateOriginalUrlOf(j) ==
  /\ jobs.at[j] = "update_original"
  /\ \E enhance \in BOOLEAN :
       JobStep(j, IF enhance THEN "upload_processed" ELSE "update_ocr",
               UpdateRow(jobs.rows, j,
                         [jobs.rows[j] EXCEPT !.originalImageUrl =
                            S3Url(JobKey(j, "original-", jobs.fileName[j]))]),
               jobs.objects)

\* await uploadToS3(processedImageBuffer, `evaluations/${evaluationId}/processed-...`)
UploadProcessedOf(j) ==
  /\ jobs.at[j] = "upload_processed"
  /\ JobStep(j, "update_processed", jobs.rows,
             PutObject(jobs.objects, JobKey(j, "processed-", jobs.fileName[j]), j))

\* await prisma.evaluation.update({ where: { id: evaluationId }, data: { processedImageUrl, ... } })
UpdateProcessedUrlOf(j) ==
  /\ jobs.at[j] = "update_processed"
  /\ JobStep(j, "update_ocr",
             UpdateRow(jobs.rows, j,
                       [jobs.rows[j] EXCEPT !.processedImageUrl =
                          S3Url(JobKey(j, "processed-", jobs.fileName[j]))]),
             jobs.objects)

\* await prisma.evaluation.update({ where: { id: evaluationId }, data: { extractedText, ocrProvider, ... } })
UpdateOcrOf(j) ==
  /\ jobs.at[j] = "update_ocr"
  /\ \E p \in Registered :
       JobStep(j, "persist",
               UpdateRow(jobs.rows, j, [jobs.rows[j] EXCEPT !.ocrProvider = p]),
               jobs.objects)

\* await prisma.evaluation.update({ where: { id: evaluationId }, data: { ..., status: 'COMPLETED' } })
PersistFinalOf(j) ==
  /\ jobs.at[j] = "persist"
  /\ JobStep(j, "done",
             UpdateRow(jobs.rows, j, [jobs.rows[j] EXCEPT !.status = "COMPLETED"]),
             jobs.objects)

\* handleEvaluationError(evaluation.id, error): its update, which may fail.
HandleEvaluationErrorOf(j) ==
  /\ jobs.at[j] = "rejected"
  /\ \/ jobs' = [jobs EXCEPT
                   !.rows = UpdateRow(@, j, [jobs.rows[j] EXCEPT
                                               !.status = "FAILED",
                                               !.errorMessage = <<"failed">>]),
                   !.at[j] = "failed"]
     \/ jobs' = [jobs EXCEPT !.at[j] = "unhandled"]
  /\ UNCHANGED <<evaluation, caller, request, pc, rejection, progress, local,
                 usageCount, ocrVars, inFlight, imageBuffer, storage, cleanup,
                 lastRead, rateVars, response, analyses>>

JobsNext ==
  \E j \in JobIds :
    \/ CreateJob(j)
    \/ UploadOriginalOf(j)
    \/ UpdateOriginalUrlOf(j)
    \/ UploadProcessedOf(j)
    \/ UpdateProcessedUrlOf(j)
    \/ UpdateOcrOf(j)
    \/ PersistFinalOf(j)
    \/ HandleEvaluationErrorOf(j)

\* Jobs submitted at any time, their runs interleaved at every await.
JobsSpec == RateInit /\ [][JobsNext]_vars

\* The job's run observed by a client that polls its status at any time.
QueryNext == Next \/ GetEvaluationStatus

QuerySpec == Init /\ [][QueryNext]_vars

\* The timer of a race always fires; nothing makes a provider's call settle.
FairSpec == Spec /\ WF_vars(TimeoutFires)

(***************************************************************************)
(* Properties of OCROrchestrator.processImage                              *)
(***************************************************************************)
IsTimeout(e) == e.message[3] = "Timeout"

\* C1: a result whose confidence is at least the threshold ends the call
\* at once: whenever such a result has been recorded, the call has returned
\* exactly that result, it came from the provider invoked last, and the
\* providers invoked are a prefix of the trial order ending with it, so no
\* later provider was invoked.
ShortCircuitAtThreshold ==
  \A i \in 1..Len(results) :
    results[i].confidence >= 70 =>
      /\ ocrPhase = "returned"
      /\ ocrOutcome = [kind |-> "result", result |-> results[i]]
      /\ i = Len(results)
      /\ invoked = SubSeq(providers, 1, Len(invoked))
      /\ invoked[Len(invoked)] = results[i].provider

\* A call that returned at the threshold after two providers that did not
\* meet it, with a later provider of the trial order left untried.
ShortCircuitWitness ==
  /\ ocrPhase = "returned"
  /\ ocrOutcome.result.confidence >= 70
  /\ Len(invoked) = 3
  /\ Len(providers) = 4
  /\ Len(errors) = 1
  /\ Len(results) = 2

\* C2: a call that returns a result below the threshold has tried the whole
\* trial order, and returns the recorded success of highest confidence, the
\* earliest tried among those of equal confidence.
BestOfExhausted ==
  (ocrPhase = "returned" /\ ocrOutcome.result.confidence < 70) =>
    /\ Len(invoked) = Len(providers)
    /\ Len(results) + Len(errors) = Len(providers)
    /\ \E i \in 1..Len(results) :
         /\ ocrOutcome.result = results[i]
         /\ \A j \in 1..Len(results) :
              /\ results[j].confidence <= results[i].confidence
              /\ j < i => results[j].confidence < results[i].confidence

\* An exhausted call whose two best successes tie, below a third and above
\* none: the earlier of the two is returned.
BestOfExhaustedWitness ==
  /\ ocrPhase = "returned"
  /\ Len(results) = 3
  /\ results[1].confidence = 40
  /\ results[2].confidence = 60
  /\ results[3].confidence = 60
  /\ ocrOutcome.result = results[2]

\* C3: the call raises only when every provider of the trial order failed
\* or timed out.  While the call is racing every settled attempt (a failure
\* or a success below the threshold) has been followed by the attempt on the
\* next provider; a call that threw recorded no success and one failure per
\* provider of the trial order; a finished call that recorded a success
\* returned.
RaisesOnlyWhenAllFailed ==
  /\ ocrPhase = "racing" =>
       /\ Len(invoked) = Len(results) + Len(errors) + 1
       /\ invoked = SubSeq(providers, 1, Len(invoked))
  /\ ocrPhase = "threw" =>
       /\ results = <<>>
       /\ Len(errors) = Len(providers)
       /\ invoked = providers
  /\ (ocrPhase \in {"returned", "threw"} /\ Len(results) > 0) => ocrPhase = "returned"

\* A fails, B succeeds below the threshold, C succeeds at it: C's result is
\* returned.
RaisesOnlyWhenAllFailedWitness ==
  /\ ocrPhase = "returned"
  /\ Len(errors) = 1
  /\ Len(results) = 2
  /\ results[1].provider = providers[2]
  /\ results[1].confidence = 60
  /\ ocrOutcome.result.provider = providers[3]

TimedOutCallIsDiscarded ==
  /\ [](\A i \in 1..Len(errors) :
          IsTimeout(errors[i]) =>
            /\ \E k \in 1..Len(invoked) : errors[i].provider = invoked[k]
            /\ \A j \in 1..Len(results) : results[j].provider # errors[i].provider
            /\ ocrPhase = "returned" => ocrOutcome.result.provider # errors[i].provider)
  /\ [](\A p \in inFlight :
          /\ evaluation.ocrProvider # p
          /\ local.ocrResult.provider # p)
  /\ [][(inFlight' # inFlight /\ inFlight' \subseteq inFlight) =>
          UNCHANGED <<results, errors, ocrOutcome, ocrPhase, invoked, evaluation,
                      local, pc>>]_vars

\* The first provider timed out, its abandoned call has settled since, and
\* the call returned another provider's result.
TimedOutCallWitness ==
  /\ ocrPhase = "returned"
  /\ Len(errors) >= 1
  /\ IsTimeout(errors[1])
  /\ errors[1].provider = providers[1]
  /\ inFlight = {}

\* C6: processImage settles whether or not the providers' calls do: a call
\* that is racing leads to a call that returned or threw, and it invokes no
\* provider twice and no more providers than the trial order holds.
ProcessImageSettles ==
  /\ [](/\ Len(invoked) <= Len(providers)
        /\ \A i, j \in 1..Len(invoked) : i # j => invoked[i] # invoked[j])
  /\ (ocrPhase = "racing") ~> (ocrPhase \in {"returned", "threw"})

\* Every attempt timed out, the call threw, and an abandoned call has still
\* not settled.
ProcessImageSettlesWitness ==
  /\ ocrPhase = "threw"
  /\ \A i \in 1..Len(errors) : IsTimeout(errors[i])
  /\ inFlight # {}

\* C7: the trial order holds every registered provider exactly once; a
\* registered preferred provider is first; otherwise the order is the
\* default priority order.
TrialOrderIsPermutation ==
  ocrPhase # "idle" =>
    /\ Len(providers) = 4
    /\ Range(providers) = {"google-vision", "aws-textract", "azure-ocr", "tesseract"}
    /\ preferredProvider \in {"google-vision", "aws-textract", "azure-ocr", "tesseract"}
         => providers[1] = preferredProvider
    /\ preferredProvider \notin {"google-vision", "aws-textract", "azure-ocr", "tesseract"}
         => providers = <<"google-vision", "azure-ocr", "aws-textract", "tesseract">>

\* A call that prefers the provider the default order tries last.
TrialOrderWitness ==
  /\ ocrPhase = "racing"
  /\ preferredProvider = "tesseract"
  /\ providers[1] = "tesseract"

(***************************************************************************)
(* Properties of the job's lifecycle                                       *)
(***************************************************************************)
\* C8: once COMPLETED or FAILED is persisted the job's status never changes.
TerminalStatusIsFinal ==
  [][evaluation.status \in {"COMPLETED", "FAILED"} =>
       evaluation'.status = evaluation.status]_vars

\* C9: a job whose identifier was returned ends COMPLETED or FAILED: when
\* the detached run and its error handler have ended, every collaborator
\* call having settled, the persisted status is terminal.
EndedRunIsTerminal ==
  (caller = "returned" /\ pc \in {"done", "failed", "unhandled"}) =>
    evaluation.status \in {"COMPLETED", "FAILED"}

\* C10: a COMPLETED job has its four scores, each a number of 0..100.
CompletedScoresInRange ==
  evaluation.status = "COMPLETED" =>
    \A s \in {evaluation.contentScore, evaluation.structureScore,
              evaluation.handwritingScore, evaluation.overallScore} :
      IsNum(s) /\ s.v >= 0 /\ s.v <= 100

\* C11: the progress sink is handed a percentage at every stage boundary:
\* at each place of the pipeline the last percentage delivered is the one of
\* the stage that place belongs to; every percentage lies in 0..100 and the
\* percentages delivered never decrease, on runs with and without the
\* enhancement stage and on runs that fail.
ProgressNeverDecreases ==
  /\ \A i \in 1..Len(progress) : progress[i] >= 0 /\ progress[i] <= 100
  /\ \A i \in 1..(Len(progress) - 1) : progress[i] <= progress[i + 1]
  /\ pc \in {"upload_original", "update_original"} => progress[Len(progress)] = 5
  /\ pc = "assess" => progress[Len(progress)] = 10
  /\ pc \in {"enhance", "upload_processed", "update_processed"}
       => progress[Len(progress)] = 15
  /\ pc \in {"ocr", "update_ocr"} => progress[Len(progress)] = 25
  /\ pc = "find_question" => progress[Len(progress)] = 50
  /\ pc = "content" => progress[Len(progress)] = 55
  /\ pc = "structure" => progress[Len(progress)] = 65
  /\ pc \in {"find_user", "feedback"}
       => progress[Len(progress) - 1] = 75 /\ progress[Len(progress)] = 85
  /\ pc \in {"persist", "usage"} => progress[Len(progress)] = 95
  /\ pc = "done" => progress[Len(progress)] = 100

\* A run through the enhancement stage that failed after text extraction.
ProgressWitness ==
  /\ pc = "failed"
  /\ Len(progress) >= 5
  /\ progress[3] = 15
  /\ progress[5] = 50

\* C12: startEvaluation raises only when the create fails, before any row
\* exists; the step that returns the identifier leaves the row PROCESSING
\* with no stage performed (the pipeline stands at its first await, or was
\* rejected by its first progress call); and once the identifier has been
\* returned nothing is raised to the caller any more.
StartEvaluationIsDetached ==
  /\ [](caller = "raised" => evaluation.status = "none" /\ pc = "not_started")
  /\ [][(caller = "idle" /\ caller' = "returned") =>
          /\ evaluation'.status = "PROCESSING"
          /\ evaluation'.originalImageUrl = ""
          /\ pc' \in {"upload_original", "rejected"}]_vars
  /\ [][caller # "idle" => caller' = caller]_vars

\* The caller holds the identifier of a job whose text extraction failed.
StartEvaluationWitness ==
  /\ caller = "returned"
  /\ pc = "failed"
  /\ rejection # <<>>
  /\ rejection[1] = "All OCR providers failed. Errors: "

\* C13: every error of the detached run is caught at the pipeline boundary
\* and ends in the row FAILED with the error's message, with no rejection
\* left unhandled.
ErrorsEndInFailed ==
  pc \in {"failed", "unhandled"} =>
    /\ pc = "failed"
    /\ evaluation.status = "FAILED"
    /\ evaluation.errorMessage = rejection

\* C14: the write of FAILED changes the status and the error message and no
\* other column of the row.
FailedWritesOnlyStatusAndMessage ==
  [][(evaluation'.status = "FAILED" /\ evaluation.status # "FAILED") =>
       evaluation' = [evaluation EXCEPT !.status = "FAILED",
                                        !.errorMessage = evaluation'.errorMessage]]_vars

\* A job that failed after its text was extracted keeps the columns the
\* earlier stages wrote.
FailedKeepsFieldsWitness ==
  /\ evaluation.status = "FAILED"
  /\ evaluation.originalImageUrl = "original-url"
  /\ evaluation.processedImageUrl = "processed-url"
  /\ evaluation.ocrProvider = "tesseract"
  /\ evaluation.errorMessage = <<"Question not found">>

\* C16: the feedback capability never fails a job: no job is FAILED with the
\* error of reading the scores of an answer that lacks scoreBreakdown.
FeedbackNeverFailsJob ==
  evaluation.status = "FAILED" => evaluation.errorMessage # NoBreakdownError

\* C15: the enhancement stage is entered exactly when the request set
\* enhanceImage or the assessed qualityScore is below 70, and processImage
\* is called with the enhanced bytes exactly when the enhancement ran (the
\* processed image was uploaded and recorded), with the original bytes
\* otherwise.
EnhancementIffRequestedOrPoor ==
  /\ pc \in {"enhance", "upload_processed", "update_processed"} =>
       (request.enhanceImage \/ local.imageQuality.qualityScore < 70)
  /\ ocrPhase # "idle" =>
       /\ pc = "ocr"
       /\ imageBuffer \in {"original", "enhanced"}
       /\ imageBuffer = "enhanced" <=>
            (request.enhanceImage \/ local.imageQuality.qualityScore < 70)
       /\ imageBuffer = "enhanced" <=> evaluation.processedImageUrl = "processed-url"

\* A request without enhanceImage whose image scored exactly 70: text
\* extraction runs on the original bytes.
EnhancementWitness ==
  /\ ocrPhase = "racing"
  /\ ~request.enhanceImage
  /\ local.imageQuality.qualityScore = 70
  /\ imageBuffer = "original"
  /\ evaluation.processedImageUrl = "null"

\* C17: the cleanup of a COMPLETED job removes every blob the job uploaded:
\* once the cleanup timer's callback has run the blob store holds neither
\* the original nor the processed image, and a job that was COMPLETED has
\* its cleanup scheduled.
CleanupRemovesUploads ==
  /\ cleanup = "ran" => storage = {}
  /\ (pc \in {"done", "failed", "unhandled"} /\ evaluation.completedAt = "now")
       => cleanup # "unset"

\* C18: getEvaluationStatus writes nothing, and once a status query has
\* returned the job COMPLETED every later query returns the very same row.
CompletedReadsAreStable ==
  [][/\ lastRead' # lastRead => UNCHANGED <<evaluation, usageCount, storage>>
     /\ lastRead.status = "COMPLETED" => lastRead' = lastRead]_vars

(***************************************************************************)
(* Properties of RateLimitService.checkLimit                               *)
(***************************************************************************)
\* The calls made so far under the limiter's key `id`, in order.
CallsOf(id) == SelectSeq(calls, LAMBDA c : IdOf(c.userId, c.key) = id)

RECURSIVE WindowPositions(_, _, _, _)
\* For the calls cs of one key, the place of each call in its window: a call
\* made when no window is open, or after the open window's end, opens a
\* window that ends windowMs later and is its first call; any other call is
\* the next call of the open window.
WindowPositions(cs, open, end, n) ==
  IF cs = <<>> THEN <<>>
  ELSE LET fresh == ~open \/ Head(cs).at > end
           place == IF fresh THEN 1 ELSE n + 1
       IN <<place>> \o WindowPositions(Tail(cs), TRUE,
                                       IF fresh THEN Head(cs).at + options.windowMs ELSE end,
                                       place)

\* C19: with maxRequests >= 1, under one key of the limiter the calls of a
\* window that are admitted are exactly its first maxRequests calls.
AdmitsFirstMaxPerWindow ==
  options.maxRequests >= 1 =>
    \A p \in Requesters :
      LET cs == CallsOf(IdOf(p[1], p[2]))
          places == WindowPositions(cs, FALSE, 0, 0)
      IN \A i \in 1..Len(cs) : cs[i].admitted <=> places[i] <= options.maxRequests

\* With maxRequests = 2, three calls in one window: two admitted, the third
\* refused.
AdmitsFirstMaxWitness ==
  /\ options.maxRequests = 2
  /\ Len(calls) = 3
  /\ \A i \in 1..3 : calls[i].userId = <<"a">> /\ calls[i].key = <<"c">>
  /\ calls[3].at <= calls[1].at + options.windowMs
  /\ calls[1].admitted /\ calls[2].admitted /\ ~calls[3].admitted

\* C20: a call made after the reset time of the key's window is admitted,
\* whatever the count was, and leaves the count at 1 and the reset time
\* windowMs after the call; a call made at the reset time itself belongs to
\* the old window: the reset time stays, and the call is admitted and
\* counted only if the count was below maxRequests.
ExpiredWindowRestarts ==
  [][\A p \in Requesters :
       LET id == IdOf(p[1], p[2])
       IN (/\ Len(calls') = Len(calls) + 1
           /\ IdOf(calls'[Len(calls')].userId, calls'[Len(calls')].key) = id
           /\ id \in DOMAIN limits)
          => /\ now > limits[id].reset =>
                  /\ calls'[Len(calls')].admitted
                  /\ limits'[id] = [count |-> 1, reset |-> now + options.windowMs]
             /\ now = limits[id].reset =>
                  /\ limits'[id].reset = limits[id].reset
                  /\ calls'[Len(calls')].admitted
                       <=> limits[id].count < options.maxRequests
                  /\ limits'[id].count =
                       IF limits[id].count < options.maxRequests
                       THEN limits[id].count + 1 ELSE limits[id].count]_vars

\* A full window: a call at its reset time is refused, and the call after it
\* is admitted and opens a window of its own.
ExpiredWindowWitness ==
  /\ options.maxRequests = 1
  /\ Len(calls) = 3
  /\ \A i \in 1..3 : calls[i].userId = <<"a">> /\ calls[i].key = <<"c">>
  /\ calls[1].admitted
  /\ calls[2].at = calls[1].at + options.windowMs
  /\ ~calls[2].admitted
  /\ calls[3].at > calls[2].at
  /\ calls[3].admitted
  /\ limits[IdOf(<<"a">>, <<"c">>)] = [count |-> 1, reset |-> calls[3].at + options.windowMs]

RECURSIVE WindowOpenings(_, _, _, _)
\* For the calls cs of one key, the time at which the window of each call
\* was opened.
WindowOpenings(cs, open, end, start) ==
  IF cs = <<>> THEN <<>>
  ELSE LET fresh == ~open \/ Head(cs).at > end
           opened == IF fresh THEN Head(cs).at ELSE start
       IN <<opened>> \o WindowOpenings(Tail(cs), TRUE,
                                       IF fresh THEN Head(cs).at + options.windowMs ELSE end,
                                       opened)

\* The number of the calls cs that were admitted at a time from lo to hi.
AdmittedIn(cs, lo, hi) ==
  Cardinality({i \in 1..Len(cs) : cs[i].admitted /\ lo <= cs[i].at /\ cs[i].at <= hi})

\* The number of the calls cs admitted in the window opened at time t, and
\* the number of them admitted after the instant t.
AdmittedOfWindow(cs, t) ==
  LET opened == WindowOpenings(cs, FALSE, 0, 0)
  IN Cardinality({i \in 1..Len(cs) : cs[i].admitted /\ opened[i] = t})
AdmittedLaterInWindow(cs, t) ==
  LET opened == WindowOpenings(cs, FALSE, 0, 0)
  IN Cardinality({i \in 1..Len(cs) : cs[i].admitted /\ opened[i] = t /\ cs[i].at > t})

\* Two full windows of the calls cs clustered at their boundary: the first
\* was opened at time t, and the second was opened and filled at the first
\* instant after the end of the first.
FullWindowsAtBoundary(cs, t) ==
  /\ AdmittedOfWindow(cs, t) = options.maxRequests
  /\ AdmittedOfWindow(cs, t + options.windowMs + 1) = options.maxRequests
  /\ AdmittedLaterInWindow(cs, t + options.windowMs + 1) = 0

\* C26 as stated: under one key with maxRequests >= 1 no interval of
\* length windowMs holds more than 2 * maxRequests admitted requests, and
\* requests that fill the windows on both sides of a window boundary reach
\* that number: some interval of length windowMs holds 2 * maxRequests of
\* them.
DoubleRateReachedAtBoundary ==
  options.maxRequests >= 1 =>
    \A p \in Requesters :
      LET cs == CallsOf(IdOf(p[1], p[2]))
      IN /\ \A s \in 0..MaxClock :
              AdmittedIn(cs, s, s + options.windowMs) <= 2 * options.maxRequests
         /\ \A t \in 0..MaxClock :
              FullWindowsAtBoundary(cs, t) =>
                \E s \in 0..MaxClock :
                  AdmittedIn(cs, s, s + options.windowMs) = 2 * options.maxRequests

\* C26, amended: under one key with maxRequests >= 1 no interval of length
\* windowMs holds more than 2 * maxRequests - 1 admitted requests, because
\* the request that opens a window is more than windowMs before the one
\* that opens the next; and requests that fill the windows on both sides of
\* a window boundary, all but the opener of the first window after its
\* opening instant, reach that number in the interval that ends when the
\* second window opens.
AdmissionsPerInterval ==
  options.maxRequests >= 1 =>
    \A p \in Requesters :
      LET cs == CallsOf(IdOf(p[1], p[2]))
      IN /\ \A s \in 0..MaxClock :
              AdmittedIn(cs, s, s + options.windowMs) <= 2 * options.maxRequests - 1
         /\ \A t \in 0..MaxClock :
              (/\ FullWindowsAtBoundary(cs, t)
               /\ AdmittedLaterInWindow(cs, t) = options.maxRequests - 1)
                => AdmittedIn(cs, t + 1, t + 1 + options.windowMs)
                     = 2 * options.maxRequests - 1

\* With maxRequests = 2, three requests admitted within windowMs: the
\* second of one window and both of the next.
AdmissionsPerIntervalWitness ==
  /\ options.maxRequests = 2
  /\ Len(calls) = 4
  /\ \A i \in 1..4 : calls[i].userId = <<"a">> /\ calls[i].key = <<"c">> /\ calls[i].admitted
  /\ FullWindowsAtBoundary(calls, calls[1].at)
  /\ AdmittedIn(calls, calls[1].at + 1, calls[1].at + 1 + options.windowMs) = 3

\* The calls made so far by the pair p = (userId, key), in order.
CallsOfPair(p) == SelectSeq(calls, LAMBDA c : c.userId = p[1] /\ c.key = p[2])

\* C27: a checkLimit call for one (userId, key) pair leaves the count and
\* the reset time of every other pair as they were, and is admitted or
\* refused by the pair's own earlier calls alone: it is admitted exactly
\* when it opens a window of the pair or is among the first maxRequests
\* calls of the pair's window; this also for identifiers that contain ':'.
CountersArePerPair ==
  [][\A p \in Requesters :
       (/\ Len(calls') = Len(calls) + 1
        /\ calls'[Len(calls')].userId = p[1]
        /\ calls'[Len(calls')].key = p[2])
       => /\ \A q \in Requesters \ {p} :
               IdOf(q[1], q[2]) \in DOMAIN limits
                 => limits'[IdOf(q[1], q[2])] = limits[IdOf(q[1], q[2])]
          /\ LET cs == SelectSeq(calls', LAMBDA c : c.userId = p[1] /\ c.key = p[2])
                 places == WindowPositions(cs, FALSE, 0, 0)
             IN cs[Len(cs)].admitted
                  <=> (places[Len(cs)] = 1 \/ places[Len(cs)] <= options.maxRequests)]_vars

(***************************************************************************)
(* Properties of the submission route                                      *)
(***************************************************************************)
\* C21: a submission without a session, refused by the rate limiter, or
\* with a form that lacks the image or the questionId, has an unsupported
\* type or is larger than 10 MB is answered 401, 429 or 400 with no job
\* identifier, and the step that answers it creates no job record and does
\* not start a pipeline.
RefusedSubmissionCreatesNoJob ==
  /\ [](response.status # 0 =>
          ((\/ response.session = <<>>
            \/ response.allowed = "no"
            \/ ~response.form.image
            \/ ~response.form.questionId
            \/ response.form.type \notin {"image/jpeg", "image/png", "application/pdf"}
            \/ response.form.size > 10)
           => /\ response.status \in {400, 401, 429}
              /\ response.evaluationId = "none"))
  /\ [][((response' # response \/ calls' # calls) /\ response'.status \in 400..499)
          => UNCHANGED <<evaluation, caller, pc, progress, storage>>]_vars

\* An image of 11 MB, otherwise in order, from a signed-in user the limiter
\* admitted: refused with 400 while no job exists.
RefusedSubmissionWitness ==
  /\ response.status = 400
  /\ response.allowed = "yes"
  /\ response.form = [image |-> TRUE, questionId |-> TRUE, type |-> "image/jpeg",
                      size |-> 11]
  /\ evaluation.status = "none"
  /\ caller = "idle"

StageOrder ==
  { <<"not_started", "upload_original">>, <<"upload_original", "update_original">>,
    <<"update_original", "assess">>, <<"assess", "enhance">>, <<"assess", "ocr">>,
    <<"enhance", "upload_processed">>, <<"upload_processed", "update_processed">>,
    <<"update_processed", "ocr">>, <<"ocr", "update_ocr">>,
    <<"update_ocr", "find_question">>, <<"find_question", "content">>,
    <<"content", "structure">>, <<"structure", "find_user">>,
    <<"find_user", "feedback">>, <<"feedback", "persist">>, <<"persist", "usage">>,
    <<"usage", "done">> }

\* C23: the stages run one after the other in the order upload, quality
\* assessment, enhancement (if any), text extraction, content analysis,
\* structure analysis, handwriting analysis, feedback, final update: every
\* step of the pipeline goes to the next place of that order or ends the
\* run; text extraction runs only while the pipeline awaits it; each
\* analysis is present from its stage on and absent before it, so that both
\* content and structure analysis are there when feedback generation
\* starts; and a COMPLETED row was written after all of them.
StagesRunInOrder ==
  /\ [][pc' # pc =>
          \/ <<pc, pc'>> \in StageOrder
          \/ pc' = "rejected"
          \/ pc = "rejected" /\ pc' \in {"failed", "unhandled"}]_vars
  /\ [](ocrPhase # "idle" => pc = "ocr")
  /\ [](pc \in {"not_started", "upload_original", "update_original", "assess",
                "enhance", "upload_processed", "update_processed", "ocr"}
          => local.ocrResult.provider = "none")
  /\ [](pc \in {"update_ocr", "find_question", "content"}
          => /\ local.ocrResult.provider # "none"
             /\ local.contentAnalysis.kind = "null"
             /\ local.structureAnalysis.kind = "null"
             /\ local.handwritingAnalysis.kind = "null")
  /\ [](pc = "structure"
          => /\ local.contentAnalysis.kind # "null"
             /\ local.structureAnalysis.kind = "null"
             /\ local.handwritingAnalysis.kind = "null")
  /\ [](pc \in {"find_user", "feedback"}
          => /\ local.contentAnalysis.kind # "null"
             /\ local.structureAnalysis.kind # "null"
             /\ local.handwritingAnalysis.kind # "null"
             /\ local.feedback.source = "none")
  /\ [](pc = "persist" => local.feedback.source # "none")
  /\ [](evaluation.status = "COMPLETED"
          => /\ pc \in {"usage", "done", "rejected", "unhandled"}
             /\ evaluation.originalImageUrl = "original-url"
             /\ evaluation.ocrProvider # "null"
             /\ evaluation.detailedFeedback # "null")

\* A run through the enhancement stage that has completed.
StagesWitness ==
  /\ pc = "done"
  /\ evaluation.status = "COMPLETED"
  /\ evaluation.processedImageUrl = "processed-url"
  /\ progress = <<5, 10, 15, 25, 50, 55, 65, 75, 85, 95, 100>>

\* C24: a job all of whose OCR providers failed or timed out ends FAILED
\* with the orchestrator's aggregate message, having run no later stage and
\* with no OCR text and no score on its row.
OcrFailureFailsJob ==
  (pc \in {"failed", "unhandled"} /\ rejection # <<>>
     /\ rejection[1] = "All OCR providers failed. Errors: ") =>
    /\ evaluation.status = "FAILED"
    /\ evaluation.errorMessage = rejection
    /\ evaluation.extractedText = "null"
    /\ evaluation.ocrProvider = "null"
    /\ evaluation.contentScore.kind = "null"
    /\ evaluation.structureScore.kind = "null"
    /\ evaluation.handwritingScore.kind = "null"
    /\ evaluation.overallScore.kind = "null"
    /\ \A i \in 1..Len(progress) : progress[i] <= 25

\* C25: within one processImage call no provider is invoked twice, a
\* provider whose result was below the threshold included; and a call that
\* returns a result below the threshold hands it to the pipeline, which goes
\* on to record it and to score the answer.
BelowThresholdProceeds ==
  /\ [](\A i \in 1..Len(results) :
          Cardinality({k \in 1..Len(invoked) : invoked[k] = results[i].provider}) = 1)
  /\ [](Cardinality(Range(invoked)) = Len(invoked))
  /\ [][(pc = "ocr" /\ ocrPhase = "returned" /\ ocrOutcome.result.confidence < 70
           /\ pc' # pc)
          => /\ pc' = "update_ocr"
             /\ local'.ocrResult = ocrOutcome.result]_vars
  /\ [](pc \in {"update_ocr", "find_question", "content", "structure", "find_user",
                "feedback", "persist"}
          => /\ local.ocrResult.provider # "none"
             /\ local.ocrResult.confidence \in Confidences)

\* A job whose best text had confidence 0.6 and that is COMPLETED.
BelowThresholdWitness ==
  /\ evaluation.status = "COMPLETED"
  /\ evaluation.ocrConfidence = [kind |-> "number", v |-> 60]
  /\ pc = "done"

(***************************************************************************)
(* Properties of the job's status and of the failures recorded             *)
(***************************************************************************)
\* C28: no job ever has the status CANCELLED: a row is created PROCESSING,
\* and the only statuses written to it afterwards are COMPLETED and FAILED.
NeverCancelled ==
  /\ [](evaluation.status \in {"none", "PROCESSING", "COMPLETED", "FAILED"})
  /\ [](evaluation.status # "CANCELLED")
  /\ [][evaluation'.status # evaluation.status =>
          \/ evaluation.status = "none" /\ evaluation'.status = "PROCESSING"
          \/ evaluation'.status \in {"COMPLETED", "FAILED"}]_vars

\* A job that was COMPLETED and then marked FAILED: every status the
\* service writes has been written to it.
NeverCancelledWitness ==
  /\ evaluation.status = "FAILED"
  /\ evaluation.completedAt # "null"
  /\ pc = "failed"

\* C29: every failure processImage records for an attempt is an OCRError
\* whose provider is the provider that was being attempted and whose
\* message ends with the cause: the adapter's own OCRError as it was thrown,
\* and the timeout's Error wrapped as `<provider> failed: Timeout`.
FailuresAreTypedErrors ==
  /\ [][Len(errors') = Len(errors) + 1 =>
          LET e == errors'[Len(errors')]
              p == providers[current]
          IN /\ DOMAIN e = {"message", "provider", "code"}
             /\ e.provider = p
             /\ Len(e.message) = 3
             /\ e.message[2] = " failed: "
             /\ \/ /\ inFlight' = inFlight
                   /\ e.message[1] = AdapterLabel(p)
                   /\ e.message[3] \in {"Unknown error", "service unavailable"}
                   /\ e.code = AdapterCode(p)
                \/ /\ e.message[1] = p
                   /\ e.message[3] = "Timeout"]_vars
  /\ [](\A i \in 1..Len(errors) :
          /\ errors[i].provider \in {"google-vision", "aws-textract", "azure-ocr",
                                     "tesseract"}
          /\ \E k \in 1..Len(invoked) : invoked[k] = errors[i].provider)

\* A call in which one attempt was lost to the timeout and another ended
\* with the adapter's error.
FailuresAreTypedWitness ==
  /\ Len(errors) = 2
  /\ errors[1].message[3] = "Timeout"
  /\ errors[2].code = AdapterCode(errors[2].provider)
  /\ errors[1].provider # errors[2].provider

\* The message of a failed prisma.evaluation.update of the pipeline.
UpdateFailure == <<"evaluation.update", " failed">>

\* C30 as stated: when a stage's write to the job record fails, the job is
\* left PROCESSING and no transition to FAILED is made for it.
FailedWriteLeavesProcessing ==
  (rejection = UpdateFailure /\ pc \in {"rejected", "failed", "unhandled"})
    => evaluation.status = "PROCESSING"

\* C30, amended: a stage's failed write to the job record leaves the row as
\* it was, PROCESSING, and ends the run like any other stage failure: the
\* error handler then writes FAILED with the failure's message, and the job
\* stays PROCESSING only if that write fails too.
FailedWriteIsHandled ==
  /\ [](rejection = UpdateFailure =>
          /\ pc = "rejected" => evaluation.status = "PROCESSING"
          /\ pc = "failed" => /\ evaluation.status = "FAILED"
                              /\ evaluation.errorMessage = UpdateFailure
          /\ pc = "unhandled" => /\ evaluation.status = "PROCESSING"
                                 /\ evaluation.errorMessage = <<>>)
  /\ [][(rejection' = UpdateFailure /\ rejection # UpdateFailure)
          => /\ pc' = "rejected"
             /\ evaluation' = evaluation]_vars
  /\ [][(rejection = UpdateFailure /\ pc = "rejected" /\ pc' # pc)
          => \/ /\ pc' = "failed"
                /\ evaluation' = [evaluation EXCEPT !.status = "FAILED",
                                                    !.errorMessage = UpdateFailure]
             \/ /\ pc' = "unhandled"
                /\ evaluation' = evaluation]_vars

\* The final update failed and the handler marked the job FAILED.
FailedWriteWitness ==
  /\ rejection = UpdateFailure
  /\ pc = "failed"
  /\ evaluation.status = "FAILED"
  /\ evaluation.errorMessage = UpdateFailure
  /\ evaluation.ocrProvider # "null"
  /\ evaluation.overallScore = Null

(***************************************************************************)
(* Properties of the trial order with a preferred provider                 *)
(***************************************************************************)
\* C31: with a registered preferred provider the trial order is the default
\* priority order (google-vision, azure-ocr, aws-textract, tesseract) with
\* the preferred provider moved to the front.
PreferredMovedToFront ==
  (ocrPhase # "idle"
     /\ preferredProvider \in {"google-vision", "aws-textract", "azure-ocr", "tesseract"})
    => providers = <<preferredProvider>>
                     \o SelectSeq(<<"google-vision", "azure-ocr", "aws-textract", "tesseract">>,
                                  LAMBDA p : p # preferredProvider)

(***************************************************************************)
(* Further properties of RateLimitService.checkLimit                       *)
(***************************************************************************)
\* C32: a checkLimit call that returns false leaves the limiter as it was:
\* the count and the reset time of its key, and the record of every other
\* key.
RefusalChangesNothing ==
  [][(Len(calls') = Len(calls) + 1 /\ ~calls'[Len(calls')].admitted)
       => limits' = limits]_vars

\* Two keys with a full window each, and a call under one of them refused.
RefusalWitness ==
  /\ options.maxRequests = 1
  /\ Len(calls) = 3
  /\ calls[1].userId = <<"a">> /\ calls[1].key = <<"c">> /\ calls[1].admitted
  /\ calls[2].userId = <<"a", ":", "b">> /\ calls[2].admitted
  /\ calls[3].userId = <<"a">> /\ calls[3].key = <<"c">> /\ ~calls[3].admitted
  /\ DOMAIN limits = {IdOf(<<"a">>, <<"c">>), IdOf(<<"a", ":", "b">>, <<"c">>)}
  /\ \A id \in DOMAIN limits : limits[id].count = 1

\* C33: checkLimit runs as one step: a step that changes the limiter is one
\* whole call, made on the limiter as the call before it left it; so
\* however the calls under one key are interleaved, those made at the same
\* instant included, no window admits more than maxRequests (>= 1) of them
\* and the key's count is the number admitted in its open window.
ChecksAreAtomic ==
  /\ [][limits' # limits =>
          /\ Len(calls') = Len(calls) + 1
          /\ calls'[Len(calls')].admitted]_vars
  /\ [](options.maxRequests >= 1 =>
          \A p \in Requesters :
            LET id == IdOf(p[1], p[2])
                cs == CallsOf(id)
                opened == WindowOpenings(cs, FALSE, 0, 0)
            IN /\ \A t \in 0..MaxClock :
                    AdmittedOfWindow(cs, t) <= options.maxRequests
               /\ cs # <<>> =>
                    limits[id].count = AdmittedOfWindow(cs, opened[Len(cs)]))

\* Four calls under one key at the same instant with maxRequests = 2: the
\* first two are admitted and the others refused.
ChecksAreAtomicWitness ==
  /\ options.maxRequests = 2
  /\ Len(calls) = 4
  /\ \A i \in 1..4 : /\ calls[i].userId = <<"a">> /\ calls[i].key = <<"c">>
                     /\ calls[i].at = calls[1].at
  /\ calls[1].admitted /\ calls[2].admitted
  /\ ~calls[3].admitted /\ ~calls[4].admitted

\* C37: a call under a key that has no record, or whose window is over, is
\* admitted whatever maxRequests is, and leaves the key's count at 1; with
\* maxRequests = 0 the call that opens a window is the only one the window
\* admits.
OpenerAlwaysAdmitted ==
  /\ [][\A p \in Requesters :
          LET id == IdOf(p[1], p[2])
          IN (/\ Len(calls') = Len(calls) + 1
              /\ IdOf(calls'[Len(calls')].userId, calls'[Len(calls')].key) = id
              /\ (id \notin DOMAIN limits \/ now > limits[id].reset))
             => /\ calls'[Len(calls')].admitted
                /\ id \in DOMAIN limits'
                /\ limits'[id].count = 1]_vars
  /\ [](options.maxRequests = 0 =>
          \A p \in Requesters :
            LET cs == CallsOf(IdOf(p[1], p[2]))
                places == WindowPositions(cs, FALSE, 0, 0)
            IN \A i \in 1..Len(cs) : cs[i].admitted <=> places[i] = 1)

\* With maxRequests = 0: a call admitted, a call of the same window refused,
\* and the first call after the window admitted.
OpenerWitness ==
  /\ options.maxRequests = 0
  /\ Len(calls) = 3
  /\ \A i \in 1..3 : calls[i].userId = <<"a">> /\ calls[i].key = <<"c">>
  /\ calls[1].admitted
  /\ ~calls[2].admitted
  /\ calls[3].at > calls[1].at + options.windowMs
  /\ calls[3].admitted

(***************************************************************************)
(* Properties of the usage counter, the progress sink and the scores       *)
(***************************************************************************)
\* C35: when the run has ended, the day's usage counter has been
\* incremented once if the job's persisted status is COMPLETED and not at
\* all if it is FAILED.
UsageCountedOncePerCompleted ==
  pc \in {"done", "failed", "unhandled"} =>
    /\ evaluation.status = "COMPLETED" => usageCount = 1
    /\ evaluation.status = "FAILED" => usageCount = 0

\* The message of an error thrown by the caller's progress callback.
SinkFailure == <<"progress sink", " failed">>

\* C36: an error thrown by the progress sink never ends the run: no run is
\* rejected with the sink's error, and no job is FAILED with its message.
SinkCannotFailJob ==
  /\ rejection # SinkFailure
  /\ evaluation.errorMessage # SinkFailure

\* C38: the final update writes as contentScore, structureScore and
\* handwritingScore the overall scores that the content, structure and
\* handwriting analyses of the same run computed, whether the feedback is
\* the model's or the default one.
PersistedScoresAreComputed ==
  [][(evaluation'.status = "COMPLETED" /\ evaluation.status # "COMPLETED")
       => /\ evaluation'.contentScore = local.contentAnalysis
          /\ evaluation'.structureScore = local.structureAnalysis
          /\ evaluation'.handwritingScore = local.handwritingAnalysis]_vars

(***************************************************************************)
(* Properties of concurrent jobs                                           *)
(***************************************************************************)
\* The key begins with evaluations/<id>/.
HasJobPrefix(key, id) ==
  /\ Len(key) >= Len(id) + 3
  /\ SubSeq(key, 1, Len(id) + 3) = <<"evaluations", "/">> \o id \o <<"/">>

\* C34: a step of one job's run changes no row but the job's own and stores
\* objects only under keys that begin with evaluations/<the job's id>/; so
\* every stored object holds the image of the job its key names, and every
\* row's URLs name objects under the row's own id.
JobsDoNotInterfere ==
  /\ [][\A j \in JobIds :
          jobs'.at[j] # jobs.at[j] =>
            /\ \A k \in JobIds \ {j} :
                 /\ k \in DOMAIN jobs'.rows <=> k \in DOMAIN jobs.rows
                 /\ k \in DOMAIN jobs.rows => jobs'.rows[k] = jobs.rows[k]
                 /\ jobs'.at[k] = jobs.at[k]
            /\ \A key \in DOMAIN jobs'.objects :
                 (key \notin DOMAIN jobs.objects \/ jobs'.objects[key] # jobs.objects[key])
                   => HasJobPrefix(key, j)
            /\ DOMAIN jobs.objects \subseteq DOMAIN jobs'.objects]_vars
  /\ [](\A key \in DOMAIN jobs.objects : HasJobPrefix(key, jobs.objects[key]))
  /\ [](\A j \in DOMAIN jobs.rows :
          /\ jobs.rows[j].originalImageUrl # <<>> =>
               /\ SubSeq(jobs.rows[j].originalImageUrl, 2, 4) = <<"evaluations", "/">> \o j
               /\ Tail(jobs.rows[j].originalImageUrl) \in DOMAIN jobs.objects
               /\ jobs.objects[Tail(jobs.rows[j].originalImageUrl)] = j
          /\ jobs.rows[j].processedImageUrl # <<>> =>
               /\ SubSeq(jobs.rows[j].processedImageUrl, 2, 4) = <<"evaluations", "/">> \o j
               /\ Tail(jobs.rows[j].processedImageUrl) \in DOMAIN jobs.objects
               /\ jobs.objects[Tail(jobs.rows[j].processedImageUrl)] = j)

\* Two jobs submitted with the same file name, both COMPLETED, each with its
\* own two objects in the store.
JobsWitness ==
  /\ \A j \in JobIds : /\ jobs.at[j] = "done"
                       /\ jobs.rows[j].status = "COMPLETED"
                       /\ jobs.rows[j].processedImageUrl # <<>>
  /\ jobs.fileName[<<"cuid1">>] = jobs.fileName[<<"cuid2">>]
  /\ Cardinality(DOMAIN jobs.objects) = 4

=============================================================================
